---- MODULE Spec2Model ----
(***************************************************************************)
(* A model of the crossstream backend: the TranscoderManager process       *)
(* supervisor (backend/transcoder.py) and the ServiceOrchestrator log      *)
(* drain (backend/service_orchestrator.py).                                *)
(***************************************************************************)
EXTENDS Integers, Sequences, FiniteSets, TLC

\* ------------------------------------------------------------------ bounds
\* How many worker processes the model lets start() spawn in one run.
MaxSpawn == 2

Pids == 1 .. MaxSpawn

\* self.process is None
NoProcess == 0

VARIABLES
    process,    \* TranscoderManager.process: NoProcess or the pid of the Popen it holds
    worker,     \* OS view of every worker: "unborn" | "alive" | "dead"
    spawned,    \* how many OS processes Popen has created so far
    config,     \* the generated config.yaml: "absent" | "partial" | "complete"
    signals,    \* what the supervisor asked of the OS, in order: <<kind, pid>>
    pc,         \* where the caller stands inside start() / stop()
    call,       \* the call in progress, or the last one that ended
    widgets_set,            \* set_ui_widgets has given the four widgets
    output_log_queue,       \* the in-process service's queue: records [id, src, text]
    transcoder_queue,       \* ServiceOrchestrator._transcoder_queue
    dpc,                    \* where drain_logs stands
    flask_lines,            \* drain_logs' local list of service lines
    transcoder_lines,       \* drain_logs' local list of worker lines
    flask_log_widget,       \* the batches written to the service log consumer
    transcoder_log_widget,  \* the batches written to the worker log consumer
    segment_map_widget,     \* what the segment map shows: the writes since its last clear()
    stats_widget,           \* what the stats line shows
    pushed,                 \* every record ever put on a queue, in put order
    tick,                   \* the drain tick in progress or last ended: what it dequeued and forwarded
    last_drain,             \* how the last call of drain_logs began: "none" | "returned" (at its guard) | "ran"
    cpc,                    \* where the transcoder-capture thread stands
    should_stop,            \* ServiceOrchestrator._should_stop
    tproc,                  \* the capture thread's local `process`
    piped,                  \* the Popen the manager holds has stdout and stderr pipes
    stdout_pipe,            \* the lines the worker wrote to stdout that nobody has read yet
    stderr_pipe,            \* the same for stderr
    written,                \* every line the worker has written, in order: [src, line]
    failed,                 \* the call that raised out of drain_logs or the capture thread, "none" if none
    template,               \* the characters of the file at TranscoderManager.config_template
    media_dir,              \* TranscoderManager.media_dir: [abs, s], s the characters of the path
    transcoder_port,        \* TranscoderManager.transcoder_port
    config_text,            \* the characters of the generated config.yaml
    stops,                  \* the stop() invocations that may overlap: where each stands, how it ended
    orch,                   \* ServiceOrchestrator.start(): where it stands, what sys.stdout / sys.stderr are, the threads it started
    host,                   \* the host process: its signal handler, its quit action, its exit status
    sprite                  \* the SpriteBuilder: its flag, its event, its queue, its worker threads

cfgVars == <<template, media_dir, transcoder_port, config_text>>

supVars ==
    <<process, worker, spawned, config, signals, pc, call,
      template, media_dir, transcoder_port, config_text, stops, orch, host, sprite>>

drainVars ==
    <<widgets_set, output_log_queue, transcoder_queue, dpc, flask_lines, transcoder_lines,
      flask_log_widget, transcoder_log_widget, segment_map_widget, stats_widget, pushed, tick,
      last_drain>>

appVars == <<orch, host, sprite>>

capVars == <<cpc, should_stop, tproc, piped, stdout_pipe, stderr_pipe, written, failed>>

vars ==
    <<process, worker, spawned, config, signals, pc, call,
      widgets_set, output_log_queue, transcoder_queue, dpc, flask_lines, transcoder_lines,
      flask_log_widget, transcoder_log_widget, segment_map_widget, stats_widget, pushed, tick,
      last_drain,
      cpc, should_stop, tproc, piped, stdout_pipe, stderr_pipe, written, failed,
      template, media_dir, transcoder_port, config_text, stops, orch, host, sprite>>

\* A call record: which method (op), how it ended (st: "active" | "returned" |
\* "raised" | "exit1"), the handle it found (pid), the path stop() took, what
\* it sent (term, kill), what poll() said in the exception handler (polled),
\* and the path of the stop() that ended just before it (prev).
NewCall(op) ==
    [op |-> op, st |-> "active", pid |-> process, path |-> "none",
     term |-> FALSE, kill |-> FALSE, polled |-> "none",
     prev |-> IF call.op = "stop" THEN call.path ELSE "none"]

NoCall ==
    [op |-> "none", st |-> "returned", pid |-> NoProcess, path |-> "none",
     term |-> FALSE, kill |-> FALSE, polled |-> "none", prev |-> "none"]

StartPcs == {"start_cfg", "start_spawn", "start_settle"}

StopPcs == {"stop_term", "stop_wait", "stop_timeout", "stop_except", "stop_finally"}

\* ------------------------------------------------------------------ the config template
\* A template and a path are sequences of characters. "M" and "P" stand for
\* the names media_dir and transcoder_port, "F" for any other field name,
\* "x" for any character that is neither a brace nor part of a name.
\* How many pieces a template is put together from.
MaxPieces == 3

\* The pieces: the two placeholders, the two doubled braces, an ordinary
\* character, the bare name media_dir, a field str.format is given no value
\* for, and a brace on its own.
Pieces ==
    { <<"{", "M", "}">>, <<"{", "P", "}">>, <<"{", "{">>, <<"}", "}">>,
      <<"x">>, <<"M">>, <<"{", "F", "}">>, <<"{">> }

RECURSIVE Concat(_)
Concat(seqs) == IF seqs = <<>> THEN <<>> ELSE Head(seqs) \o Concat(Tail(seqs))

Templates == {Concat(ps) : ps \in UNION {[1 .. k -> Pieces] : k \in 0 .. MaxPieces}}

\* The working directory Path.resolve() makes a relative path absolute with.
Cwd == <<"/", "w", "/">>

\* A media directory given absolute, one given relative, and one whose name
\* is itself the text of a placeholder.
MediaDirs ==
    { [abs |-> TRUE, s |-> <<"/", "m">>],
      [abs |-> FALSE, s |-> <<"m">>],
      [abs |-> TRUE, s |-> <<"/", "{", "P", "}">>] }

Ports == {8080}

\* The template shipped beside the executable and the values host.py passes.
DefaultTemplate == <<"x", "{", "M", "}", "x", "{", "P", "}">>

DefaultMediaDir == [abs |-> TRUE, s |-> <<"/", "m">>]

\* str(self.media_dir.resolve())
Resolve(path) == IF path.abs THEN path.s ELSE Cwd \o path.s

RECURSIVE PortDigits(_)
PortDigits(n) ==
    IF n < 10 THEN <<ToString(n)>> ELSE Append(PortDigits(n \div 10), ToString(n % 10))

\* The keyword arguments of the format() call, as format() writes them.
FieldValue(name) == IF name = "M" THEN Resolve(media_dir) ELSE PortDigits(transcoder_port)

FormatError == <<"error">>

\* The placeholder filled in and the result formatted again, as chained
\* replace() calls would do: a value that holds a placeholder is rewritten.
RECURSIVE Format_Rescan(_)
Format_Rescan(t) ==
    IF t = <<>> THEN <<>>
    ELSE IF Head(t) = "{"
    THEN IF Len(t) >= 2 /\ t[2] = "{"
         THEN LET rest == Format_Rescan(SubSeq(t, 3, Len(t)))
              IN  IF rest = FormatError THEN FormatError ELSE <<"{">> \o rest
         ELSE IF Len(t) >= 3 /\ t[2] \in {"M", "P"} /\ t[3] = "}"
         THEN LET rest == Format_Rescan(FieldValue(t[2]) \o SubSeq(t, 4, Len(t)))
              IN  IF rest = FormatError THEN FormatError ELSE rest
         ELSE FormatError
    ELSE IF Head(t) = "}"
    THEN IF Len(t) >= 2 /\ t[2] = "}"
         THEN LET rest == Format_Rescan(SubSeq(t, 3, Len(t)))
              IN  IF rest = FormatError THEN FormatError ELSE <<"}">> \o rest
         ELSE FormatError
    ELSE LET rest == Format_Rescan(Tail(t))
         IN  IF rest = FormatError THEN FormatError ELSE <<Head(t)>> \o rest

\* f.read().format(media_dir=..., transcoder_port=...): one scan from the
\* left. "{{" and "}}" give one brace; "{name}" gives the value of that
\* keyword, which is not scanned again; a field without a keyword (KeyError),
\* a brace that opens no field or closes none (ValueError) make it raise.
RECURSIVE Format(_)
Format(t) ==
    IF t = <<>> THEN <<>>
    ELSE IF Head(t) = "{"
    THEN IF Len(t) >= 2 /\ t[2] = "{"
         THEN LET rest == Format(SubSeq(t, 3, Len(t)))
              IN  IF rest = FormatError THEN FormatError ELSE <<"{">> \o rest
         ELSE IF Len(t) >= 3 /\ t[2] \in {"M", "P"} /\ t[3] = "}"
         THEN LET rest == Format(SubSeq(t, 4, Len(t)))
              IN  IF rest = FormatError THEN FormatError ELSE FieldValue(t[2]) \o rest
         ELSE FormatError
    ELSE IF Head(t) = "}"
    THEN IF Len(t) >= 2 /\ t[2] = "}"
         THEN LET rest == Format(SubSeq(t, 3, Len(t)))
              IN  IF rest = FormatError THEN FormatError ELSE <<"}">> \o rest
         ELSE FormatError
    ELSE LET rest == Format(Tail(t))
         IN  IF rest = FormatError THEN FormatError ELSE <<Head(t)>> \o rest

\* TranscoderManager.__init__: no process yet.
\* How many invocations of stop() may be in progress at once.
MaxCallers == 2

Callers == 1 .. MaxCallers

\* One invocation of stop(): where it stands (pc), how it ended (st: "none" |
\* "returned" | "raised"), whether an exception is on its way out of the
\* method (exc), and whether another invocation was in progress when it was
\* made (during).
NotCalled == [pc |-> "idle", st |-> "none", exc |-> FALSE, during |-> FALSE]

NoStops == [i \in Callers |-> NotCalled]

\* What sys.stdout and sys.stderr can be bound to when start() is called: the
\* terminal, or a stream object the host installed before. "capture" is the
\* _StreamToQueue object _initialize_video_manager makes.
StreamObjects == {"tty", "hoststream"}

\* ServiceOrchestrator.__init__: no thread yet. stdout and stderr are the
\* current bindings of sys.stdout and sys.stderr, stdout0 and stderr0 what they
\* were when the orchestrator was made; original_stdout and original_stderr
\* are the locals of _initialize_video_manager; exc says an exception is on
\* its way out of start(); elsewhere counts the writes that went to a stream
\* other than the capture object.
OrchNotStarted(out, err) ==
    [pc |-> "idle", stdout |-> out, stderr |-> err, stdout0 |-> out, stderr0 |-> err,
     original_stdout |-> "unset", original_stderr |-> "unset", exc |-> FALSE,
     flask_thread |-> FALSE, transcoder_thread |-> FALSE, elsewhere |-> 0]

\* The orchestrator after start() has returned.
OrchStarted ==
    [pc |-> "returned", stdout |-> "tty", stderr |-> "tty", stdout0 |-> "tty", stderr0 |-> "tty",
     original_stdout |-> "tty", original_stderr |-> "tty", exc |-> FALSE,
     flask_thread |-> TRUE, transcoder_thread |-> TRUE, elsewhere |-> 0]

\* host.main() after signal.signal(...) and tui.run(): the handler installed,
\* the application running, nobody has asked it to end.
HostRunning ==
    [handler |-> "none", quit |-> "none", exited |-> FALSE, status |-> -1]

\* SpriteBuilder.__init__
\* running is _running, stop_event the Event, queue the job queue; threads
\* holds every worker thread ever started, each with where it stands (pc) and
\* the job it took; pc is where the caller of start() / stop() stands, last
\* what its last call did; submitted and built list the jobs in the order
\* they were submitted and in the order their builds ended.
NewSpriteBuilder ==
    [running |-> FALSE, stop_event |-> FALSE, queue |-> <<>>, threads |-> <<>>,
     pc |-> "idle", last |-> "none", submitted |-> <<>>, built |-> <<>>]

InitSupervisor ==
    /\ process = NoProcess
    /\ worker = [p \in Pids |-> "unborn"]
    /\ spawned = 0
    /\ config = "absent"
    /\ signals = <<>>
    /\ pc = "idle"
    /\ call = NoCall
    /\ template = DefaultTemplate
    /\ media_dir = DefaultMediaDir
    /\ transcoder_port = 8080
    /\ config_text = <<>>
    /\ stops = NoStops
    /\ orch = OrchStarted
    /\ host = HostRunning
    /\ sprite = NewSpriteBuilder

\* ------------------------------------------------------------------ worker
\* The worker exits by itself (a crash, or a launch that fails at once).
WorkerExit ==
    /\ \E p \in Pids :
        /\ worker[p] = "alive"
        /\ worker' = [worker EXCEPT ![p] = "dead"]
    /\ UNCHANGED <<process, spawned, config, signals, pc, call>>
    /\ UNCHANGED drainVars
    /\ UNCHANGED capVars
    /\ UNCHANGED cfgVars
    /\ UNCHANGED stops
    /\ UNCHANGED appVars

\* ------------------------------------------------------------------ start()
\* start() is entered; nothing guards it against a process already held.
StartCall ==
    /\ pc = "idle"
    /\ spawned < MaxSpawn
    /\ pc' = "start_cfg"
    /\ call' = NewCall("start")
    /\ UNCHANGED <<process, worker, spawned, config, signals>>
    /\ UNCHANGED drainVars
    /\ UNCHANGED capVars
    /\ UNCHANGED cfgVars
    /\ UNCHANGED stops
    /\ UNCHANGED appVars

\* mkdir, read the template, format it, write config.yaml.
StartConfigOk ==
    /\ pc = "start_cfg"
    /\ Format(template) # FormatError
    /\ config' = "complete"
    /\ config_text' = Format(template)
    /\ pc' = "start_spawn"
    /\ UNCHANGED <<process, worker, spawned, signals, call>>
    /\ UNCHANGED <<template, media_dir, transcoder_port>>
    /\ UNCHANGED stops
    /\ UNCHANGED appVars
    /\ UNCHANGED drainVars
    /\ UNCHANGED capVars

\* The failure swallowed (a try / except around the config block that only
\* logs): start() goes on to Popen with whatever the file holds.
StartConfigFail_StillSpawns ==
    /\ pc = "start_cfg"
    /\ \/ UNCHANGED <<config, config_text>>
       \/ /\ Format(template) # FormatError
          /\ config' = "partial"
          /\ config_text' = <<>>
    /\ pc' = "start_spawn"
    /\ UNCHANGED <<process, worker, spawned, signals, call>>
    /\ UNCHANGED <<template, media_dir, transcoder_port>>
    /\ UNCHANGED stops
    /\ UNCHANGED appVars
    /\ UNCHANGED drainVars
    /\ UNCHANGED capVars

\* Reading or formatting the template raises (config untouched), or the write
\* raises after open(config_file, 'w') truncated the file (config partial):
\* the file is opened only once the template is formatted.
StartConfigFail ==
    /\ pc = "start_cfg"
    /\ \/ UNCHANGED <<config, config_text>>
       \/ /\ Format(template) # FormatError
          /\ config' = "partial"
          /\ config_text' = <<>>
    /\ pc' = "idle"
    /\ call' = [call EXCEPT !.st = "raised"]
    /\ UNCHANGED <<process, worker, spawned, signals>>
    /\ UNCHANGED <<template, media_dir, transcoder_port>>
    /\ UNCHANGED stops
    /\ UNCHANGED appVars
    /\ UNCHANGED drainVars
    /\ UNCHANGED capVars

\* self.process = subprocess.Popen(...): one new OS process, the handle overwritten.
StartSpawn ==
    /\ pc = "start_spawn"
    /\ spawned' = spawned + 1
    /\ worker' = [worker EXCEPT ![spawned + 1] = "alive"]
    /\ process' = spawned + 1
    /\ pc' = "start_settle"
    /\ UNCHANGED <<config, signals, call>>
    /\ UNCHANGED drainVars
    /\ UNCHANGED capVars
    /\ UNCHANGED cfgVars
    /\ UNCHANGED stops
    /\ UNCHANGED appVars

\* Popen raises (the executable is missing): no process, the handle as it was.
StartSpawnFail ==
    /\ pc = "start_spawn"
    /\ pc' = "idle"
    /\ call' = [call EXCEPT !.st = "raised"]
    /\ UNCHANGED <<process, worker, spawned, config, signals>>
    /\ UNCHANGED drainVars
    /\ UNCHANGED capVars
    /\ UNCHANGED cfgVars
    /\ UNCHANGED stops
    /\ UNCHANGED appVars

\* time.sleep(1); if self.process.poll() is not None: sys.exit(1)
StartPoll ==
    /\ pc = "start_settle"
    /\ pc' = "idle"
    /\ call' = [call EXCEPT !.st = IF worker[process] = "alive" THEN "returned" ELSE "exit1"]
    /\ UNCHANGED <<process, worker, spawned, config, signals>>
    /\ UNCHANGED drainVars
    /\ UNCHANGED capVars
    /\ UNCHANGED cfgVars
    /\ UNCHANGED stops
    /\ UNCHANGED appVars

\* ------------------------------------------------------------------ stop(), as a bug would write it
\* The guard dropped: None.terminate() raises inside the try, and the handler's
\* None.poll() raises again, out of stop().
StopCall_NoGuard ==
    /\ pc = "idle"
    /\ IF process = NoProcess
       THEN /\ call' = [NewCall("stop") EXCEPT !.st = "raised", !.path = "except"]
            /\ pc' = "idle"
       ELSE /\ call' = NewCall("stop")
            /\ pc' = "stop_term"
    /\ UNCHANGED <<process, worker, spawned, config, signals>>
    /\ UNCHANGED drainVars
    /\ UNCHANGED capVars
    /\ UNCHANGED cfgVars
    /\ UNCHANGED stops
    /\ UNCHANGED appVars

\* On TimeoutExpired the worker is left alone instead of being killed.
StopKillTimeout_NoKill ==
    /\ pc = "stop_timeout"
    /\ pc' = "stop_finally"
    /\ UNCHANGED <<process, worker, spawned, config, signals, call>>
    /\ UNCHANGED drainVars
    /\ UNCHANGED capVars
    /\ UNCHANGED cfgVars
    /\ UNCHANGED stops
    /\ UNCHANGED appVars

\* The exception handler only logs: no poll(), no kill().
StopExcept_LogOnly ==
    /\ pc = "stop_except"
    /\ pc' = "stop_finally"
    /\ UNCHANGED <<process, worker, spawned, config, signals, call>>
    /\ UNCHANGED drainVars
    /\ UNCHANGED capVars
    /\ UNCHANGED cfgVars
    /\ UNCHANGED stops
    /\ UNCHANGED appVars

\* self.process = None written at the end of the try block, not in finally:
\* the exception path keeps the handle.
StopFinally_NotOnException ==
    /\ pc = "stop_finally"
    /\ process' = IF call.path = "except" THEN process ELSE NoProcess
    /\ call' = [call EXCEPT !.st = "returned"]
    /\ pc' = "idle"
    /\ UNCHANGED <<worker, spawned, config, signals>>
    /\ UNCHANGED drainVars
    /\ UNCHANGED capVars
    /\ UNCHANGED cfgVars
    /\ UNCHANGED stops
    /\ UNCHANGED appVars

\* The handle is never cleared.
StopFinally_KeepHandle ==
    /\ pc = "stop_finally"
    /\ call' = [call EXCEPT !.st = "returned"]
    /\ pc' = "idle"
    /\ UNCHANGED <<process, worker, spawned, config, signals>>
    /\ UNCHANGED drainVars
    /\ UNCHANGED capVars
    /\ UNCHANGED cfgVars
    /\ UNCHANGED stops
    /\ UNCHANGED appVars

\* ------------------------------------------------------------------ stop()
\* The graceful phase (terminate, wait) may raise; kill() and the wait() after
\* it are taken to succeed, as the OS guarantees for a child process.
\* if not self.process: return
StopCall ==
    /\ pc = "idle"
    /\ IF process = NoProcess
       THEN /\ call' = [NewCall("stop") EXCEPT !.st = "returned", !.path = "noop"]
            /\ pc' = "idle"
       ELSE /\ call' = NewCall("stop")
            /\ pc' = "stop_term"
    /\ UNCHANGED <<process, worker, spawned, config, signals>>
    /\ UNCHANGED drainVars
    /\ UNCHANGED capVars
    /\ UNCHANGED cfgVars
    /\ UNCHANGED stops
    /\ UNCHANGED appVars

\* self.process.terminate() / send_signal(CTRL_BREAK_EVENT): sent, or it raises.
StopTerminate ==
    /\ pc = "stop_term"
    /\ signals' = Append(signals, <<"term", process>>)
    /\ \/ /\ pc' = "stop_wait"
          /\ call' = [call EXCEPT !.term = TRUE]
       \/ /\ pc' = "stop_except"
          /\ call' = [call EXCEPT !.term = TRUE, !.path = "except"]
    /\ UNCHANGED <<process, worker, spawned, config>>
    /\ UNCHANGED drainVars
    /\ UNCHANGED capVars
    /\ UNCHANGED cfgVars
    /\ UNCHANGED stops
    /\ UNCHANGED appVars

\* self.process.wait(timeout=self.stop_timeout): the worker is gone in time,
\* or TimeoutExpired while it still lives, or another exception.
StopWait ==
    /\ pc = "stop_wait"
    /\ \/ /\ worker' = [worker EXCEPT ![process] = "dead"]
          /\ pc' = "stop_finally"
          /\ call' = [call EXCEPT !.path = "graceful"]
       \/ /\ worker[process] = "alive"
          /\ pc' = "stop_timeout"
          /\ call' = [call EXCEPT !.path = "timeout"]
          /\ UNCHANGED worker
       \/ /\ pc' = "stop_except"
          /\ call' = [call EXCEPT !.path = "except"]
          /\ UNCHANGED worker
    /\ UNCHANGED <<process, spawned, config, signals>>
    /\ UNCHANGED drainVars
    /\ UNCHANGED capVars
    /\ UNCHANGED cfgVars
    /\ UNCHANGED stops
    /\ UNCHANGED appVars

\* except subprocess.TimeoutExpired: self.process.kill(); self.process.wait()
StopKillTimeout ==
    /\ pc = "stop_timeout"
    /\ signals' = Append(signals, <<"kill", process>>)
    /\ worker' = [worker EXCEPT ![process] = "dead"]
    /\ call' = [call EXCEPT !.kill = TRUE]
    /\ pc' = "stop_finally"
    /\ UNCHANGED <<process, spawned, config>>
    /\ UNCHANGED drainVars
    /\ UNCHANGED capVars
    /\ UNCHANGED cfgVars
    /\ UNCHANGED stops
    /\ UNCHANGED appVars

\* except Exception: if self.process.poll() is None: kill(); wait()
StopExcept ==
    /\ pc = "stop_except"
    /\ IF worker[process] = "alive"
       THEN /\ signals' = Append(signals, <<"kill", process>>)
            /\ worker' = [worker EXCEPT ![process] = "dead"]
            /\ call' = [call EXCEPT !.kill = TRUE, !.polled = "alive"]
       ELSE /\ call' = [call EXCEPT !.polled = "dead"]
            /\ UNCHANGED <<signals, worker>>
    /\ pc' = "stop_finally"
    /\ UNCHANGED <<process, spawned, config>>
    /\ UNCHANGED drainVars
    /\ UNCHANGED capVars
    /\ UNCHANGED cfgVars
    /\ UNCHANGED stops
    /\ UNCHANGED appVars

\* finally: self.process = None
StopFinally ==
    /\ pc = "stop_finally"
    /\ process' = NoProcess
    /\ call' = [call EXCEPT !.st = "returned"]
    /\ pc' = "idle"
    /\ UNCHANGED <<worker, spawned, config, signals>>
    /\ UNCHANGED drainVars
    /\ UNCHANGED capVars
    /\ UNCHANGED cfgVars
    /\ UNCHANGED stops
    /\ UNCHANGED appVars

\* ------------------------------------------------------------------ stop() while stop() runs
\* stop() takes no lock, and every statement of it reads self.process anew:
\* an invocation that finds None where it found a handle before gets
\* AttributeError ('NoneType' object has no attribute ...).
InProgress(i) == stops[i].pc \notin {"idle", "done"}

\* What no statement of stop() touches.
StopFrame ==
    /\ UNCHANGED <<spawned, config, pc, call>>
    /\ UNCHANGED appVars
    /\ UNCHANGED cfgVars
    /\ UNCHANGED drainVars
    /\ UNCHANGED capVars

Goto(i, where) == stops' = [stops EXCEPT ![i].pc = where]

\* An exception leaves the handler of `except Exception`: finally runs, then
\* the exception goes on to the caller.
RaiseFromHandler(i) == stops' = [stops EXCEPT ![i].pc = "stop_finally", ![i].exc = TRUE]

\* if not self.process: return
StopCallBy(i) ==
    /\ stops[i].pc = "idle"
    /\ stops' = [stops EXCEPT
                    ![i].pc = IF process = NoProcess THEN "done" ELSE "stop_term",
                    ![i].st = IF process = NoProcess THEN "returned" ELSE "none",
                    ![i].during = \E j \in Callers \ {i} : InProgress(j)]
    /\ UNCHANGED <<process, worker, signals>>
    /\ StopFrame

\* self.process.terminate() / send_signal(CTRL_BREAK_EVENT)
StopTerminateBy(i) ==
    /\ stops[i].pc = "stop_term"
    /\ IF process = NoProcess
       THEN Goto(i, "stop_except") /\ UNCHANGED signals
       ELSE /\ signals' = Append(signals, <<"term", process>>)
            /\ \/ Goto(i, "stop_wait")
               \/ Goto(i, "stop_except")
    /\ UNCHANGED <<process, worker>>
    /\ StopFrame

\* self.process.wait(timeout=self.stop_timeout)
StopWaitBy(i) ==
    /\ stops[i].pc = "stop_wait"
    /\ IF process = NoProcess
       THEN Goto(i, "stop_except") /\ UNCHANGED worker
       ELSE \/ /\ worker' = [worker EXCEPT ![process] = "dead"]
               /\ Goto(i, "stop_finally")
            \/ /\ worker[process] = "alive"
               /\ Goto(i, "stop_timeout")
               /\ UNCHANGED worker
            \/ /\ Goto(i, "stop_except")
               /\ UNCHANGED worker
    /\ UNCHANGED <<process, signals>>
    /\ StopFrame

\* except subprocess.TimeoutExpired: self.process.kill(). An exception raised
\* in this handler is inside the outer try, so `except Exception` gets it.
StopKillBy(i) ==
    /\ stops[i].pc = "stop_timeout"
    /\ IF process = NoProcess
       THEN Goto(i, "stop_except") /\ UNCHANGED <<signals, worker>>
       ELSE /\ signals' = Append(signals, <<"kill", process>>)
            /\ worker' = [worker EXCEPT ![process] = "dead"]
            /\ Goto(i, "stop_timeout_wait")
    /\ UNCHANGED process
    /\ StopFrame

\* ... self.process.wait()
StopKillWaitBy(i) ==
    /\ stops[i].pc = "stop_timeout_wait"
    /\ Goto(i, IF process = NoProcess THEN "stop_except" ELSE "stop_finally")
    /\ UNCHANGED <<process, worker, signals>>
    /\ StopFrame

\* except Exception: if self.process.poll() is None:
StopExceptPollBy(i) ==
    /\ stops[i].pc = "stop_except"
    /\ IF process = NoProcess THEN RaiseFromHandler(i)
       ELSE Goto(i, IF worker[process] = "alive" THEN "stop_except_kill" ELSE "stop_finally")
    /\ UNCHANGED <<process, worker, signals>>
    /\ StopFrame

\* ... self.process.kill()
StopExceptKillBy(i) ==
    /\ stops[i].pc = "stop_except_kill"
    /\ IF process = NoProcess
       THEN RaiseFromHandler(i) /\ UNCHANGED <<signals, worker>>
       ELSE /\ signals' = Append(signals, <<"kill", process>>)
            /\ worker' = [worker EXCEPT ![process] = "dead"]
            /\ Goto(i, "stop_except_wait")
    /\ UNCHANGED process
    /\ StopFrame

\* ... self.process.wait()
StopExceptWaitBy(i) ==
    /\ stops[i].pc = "stop_except_wait"
    /\ IF process = NoProcess THEN RaiseFromHandler(i) ELSE Goto(i, "stop_finally")
    /\ UNCHANGED <<process, worker, signals>>
    /\ StopFrame

\* finally: self.process = None; then the method returns, or the exception
\* that left the handler reaches the caller.
StopFinallyBy(i) ==
    /\ stops[i].pc = "stop_finally"
    /\ process' = NoProcess
    /\ stops' = [stops EXCEPT ![i].pc = "done",
                              ![i].st = IF stops[i].exc THEN "raised" ELSE "returned"]
    /\ UNCHANGED <<worker, signals>>
    /\ StopFrame

\* ------------------------------------------------------------------ text
\* A line of output is a sequence of tokens [k, v, n]: k the kind, v its
\* characters, n a counter value. Kinds: "txt" an ordinary character, "ws" a
\* blank, "nl" a newline, "esc" one escape sequence the ANSI pattern matches
\* ("escbyte" its first character alone, "csi" the rest of it alone),
\* "mark1" "mark2" the two halves of the marker "status update", "tag" the
\* "[STDERR] " prefix, "segments" / "downloads" a key="..." pair (v the quoted
\* glyphs), "stat" a name=digits pair (v the name, n the number).
Tok(k, v, n) == [k |-> k, v |-> v, n |-> n]

Txt(c) == Tok("txt", <<c>>, 0)

Ws == Tok("ws", <<" ">>, 0)

Nl == Tok("nl", <<"LF">>, 0)

Esc == Tok("esc", <<"ESC[0m">>, 0)

\* The ESC character alone, and the characters "[0m" that make an escape
\* sequence only with an ESC in front of them.
EscByte == Tok("escbyte", <<"ESC">>, 0)

CsiTail == Tok("csi", <<"[0m">>, 0)

Mark1 == Tok("mark1", <<"status ">>, 0)

Mark2 == Tok("mark2", <<"update">>, 0)

StderrTag == Tok("tag", <<"[STDERR] ">>, 0)

SegmentsKV(glyphs) == Tok("segments", glyphs, 0)

DownloadsKV(glyphs) == Tok("downloads", glyphs, 0)

StatKV(name, n) == Tok("stat", <<name>>, n)

\* ansi_escape.sub('', text): one scan from the left that drops every match
\* it meets, a whole escape sequence or an ESC character with the rest of a
\* sequence right behind it. What a dropped match leaves side by side is not
\* looked at again.
RECURSIVE _strip_ansi(_)
_strip_ansi(text) ==
    IF text = <<>> THEN <<>>
    ELSE IF Head(text).k = "esc" THEN _strip_ansi(Tail(text))
    ELSE IF Head(text).k = "escbyte" /\ Len(text) >= 2 /\ text[2].k = "csi"
    THEN _strip_ansi(SubSeq(text, 3, Len(text)))
    ELSE <<Head(text)>> \o _strip_ansi(Tail(text))

IsSpace(t) == t.k \in {"ws", "nl"}

RECURSIVE LStrip(_)
LStrip(text) ==
    IF text = <<>> THEN <<>>
    ELSE IF IsSpace(Head(text)) THEN LStrip(Tail(text))
    ELSE text

RECURSIVE RStrip(_)
RStrip(text) ==
    IF text = <<>> THEN <<>>
    ELSE IF IsSpace(text[Len(text)]) THEN RStrip(SubSeq(text, 1, Len(text) - 1))
    ELSE text

\* str.strip()
Strip(text) == RStrip(LStrip(text))

\* str.rstrip("\n")
RECURSIVE RStripNl(_)
RStripNl(text) ==
    IF text = <<>> THEN <<>>
    ELSE IF text[Len(text)].k = "nl" THEN RStripNl(SubSeq(text, 1, Len(text) - 1))
    ELSE text

\* 'status update' in line
HasMarker(line) ==
    \E i \in 1 .. (Len(line) - 1) : line[i].k = "mark1" /\ line[i + 1].k = "mark2"

\* _format_log_record: the queue holds strings, which are returned as they are.
_format_log_record(record) == record

\* ------------------------------------------------------------------ telemetry
Filler == "dash"

FULL_SQUARES == {"full_block", "black_square"}

DARK_GREEN == "#207520"

ORANGE == "#d97c13"

RED == "red"

WHITE == "white"

Styled(bg, fg, glyph) == [bg |-> bg, fg |-> fg, glyph |-> glyph]

Max(a, b) == IF a >= b THEN a ELSE b

Min(a, b) == IF a <= b THEN a ELSE b

\* zip() in place of zip_longest(): the pairing stops at the shorter string.
ZipLongest_Zip(segments, downloads) ==
    [i \in 1 .. Min(Len(segments), Len(downloads)) |->
        [seg |-> segments[i], dl |-> downloads[i]]]

\* zip_longest(segments, downloads, fillvalue="-")
ZipLongest(segments, downloads) ==
    [i \in 1 .. Max(Len(segments), Len(downloads)) |->
        [seg |-> IF i <= Len(segments) THEN segments[i] ELSE Filler,
         dl |-> IF i <= Len(downloads) THEN downloads[i] ELSE Filler]]

\* The position rule without the full-square case: every done position gets
\* the dark-green background.
RenderPair_NoFullSquare(seg_char, dl_char) ==
    IF dl_char = "check" THEN Styled(DARK_GREEN, WHITE, seg_char)
    ELSE IF dl_char = "play" THEN Styled(ORANGE, WHITE, seg_char)
    ELSE IF dl_char = "bang" THEN Styled(RED, WHITE, seg_char)
    ELSE Styled("none", "none", seg_char)

\* One position of render_segment_map.
RenderPair(seg_char, dl_char) ==
    IF dl_char = "check"
    THEN IF seg_char \in FULL_SQUARES
         THEN Styled("none", DARK_GREEN, seg_char)
         ELSE Styled(DARK_GREEN, WHITE, seg_char)
    ELSE IF dl_char = "play" THEN Styled(ORANGE, WHITE, seg_char)
    ELSE IF dl_char = "bang" THEN Styled(RED, WHITE, seg_char)
    ELSE Styled("none", "none", seg_char)

\* The renderer with a memory: when the map it rendered last has as many
\* positions as the one asked for, that one is returned again.
render_segment_map_Cached(segments, downloads) ==
    LET pairs == ZipLongest(segments, downloads)
    IN  IF Len(pairs) > 0 /\ segment_map_widget # <<>> /\ Len(segment_map_widget[1]) = Len(pairs)
        THEN segment_map_widget[1]
        ELSE [i \in 1 .. Len(pairs) |-> RenderPair(pairs[i].seg, pairs[i].dl)]

render_segment_map(segments, downloads) ==
    LET pairs == ZipLongest(segments, downloads)
    IN  [i \in 1 .. Len(pairs) |-> RenderPair(pairs[i].seg, pairs[i].dl)]

\* re.search(r'key="([^"]+)"', line): the first pair of that key with a
\* non-empty value; the empty string when there is none.
RECURSIVE QuotedValue(_, _)
QuotedValue(line, key) ==
    IF line = <<>> THEN <<>>
    ELSE IF Head(line).k = key /\ Head(line).v # <<>> THEN Head(line).v
    ELSE QuotedValue(Tail(line), key)

\* segments.encode('utf-8', 'replace').decode('utf-8'): a lone surrogate becomes "?".
Utf8Replace(glyphs) ==
    [i \in 1 .. Len(glyphs) |-> IF glyphs[i] = "surrogate" THEN "?" ELSE glyphs[i]]

StatNames == {"queued", "in_progress", "done", "dl_requested", "dl_sent"}

HasStat(line, name) == \E i \in 1 .. Len(line) : line[i].k = "stat" /\ line[i].v = <<name>>

\* re.search(rf'{stat}=(\d+)', line): the first match.
RECURSIVE FirstStat(_, _)
FirstStat(line, name) ==
    IF Head(line).k = "stat" /\ Head(line).v = <<name>> THEN Head(line).n
    ELSE FirstStat(Tail(line), name)

\* The stats dict: only the counters the line holds.
ParseStats(line) ==
    [name \in {m \in StatNames : HasStat(line, m)} |-> FirstStat(line, name)]

\* The default of stats.get() mistaken: -1 where 0 is meant.
StatGet_DefaultMinusOne(stats, name) == IF name \in DOMAIN stats THEN stats[name] ELSE 0 - 1

\* stats.get(name, 0)
StatGet(stats, name) == IF name \in DOMAIN stats THEN stats[name] ELSE 0

RECURSIVE Digits(_)
Digits(n) == IF n < 10 THEN <<ToString(n)>> ELSE Append(Digits(n \div 10), ToString(n % 10))

RECURSIVE Blanks(_)
Blanks(k) == IF k <= 0 THEN <<>> ELSE <<" ">> \o Blanks(k - 1)

\* The field cut to its width: the leading digits only.
FormatD_Truncating(n, width) ==
    IF Len(Digits(n)) > width THEN SubSeq(Digits(n), 1, width)
    ELSE Blanks(width - Len(Digits(n))) \o Digits(n)

\* format(n, f"{width}d"): right-justified, never truncated.
FormatD(n, width) == Blanks(width - Len(Digits(n))) \o Digits(n)

StatsLine(stats) ==
    <<"Seg: ">> \o FormatD(StatGet(stats, "queued"), 2) \o <<"q  ">>
        \o FormatD(StatGet(stats, "in_progress"), 1) \o <<"i ">>
        \o FormatD(StatGet(stats, "done"), 2) \o <<"d / DL: ">>
        \o FormatD(StatGet(stats, "dl_requested"), 2) \o <<"r  ">>
        \o FormatD(StatGet(stats, "dl_sent"), 1) \o <<"s">>

parse_status_update_log(line) ==
    LET segments == Utf8Replace(QuotedValue(line, "segments"))
        downloads == QuotedValue(line, "downloads")
        stats == ParseStats(line)
    IN  [segments |-> segments,
         downloads |-> downloads,
         stats |-> stats,
         colored_segments |-> render_segment_map(segments, downloads),
         stats_line |-> StatsLine(stats)]

\* ------------------------------------------------------------------ producers
\* How many records the producers put on the queues in one run.
MaxPush == 3

chunk_size == 10

\* What the in-process service logs or prints.
ServiceTexts ==
    { <<Esc, Txt("b"), Nl>>,
      <<Mark1, Mark2, StatKV("queued", 7)>>,
      <<>> }

\* The lines the worker writes to its stdout and stderr.
WorkerLines ==
    { <<Txt("a"), Nl>>,
      <<Ws, Nl>>,
      <<Mark1, Mark2, Ws, StatKV("queued", 3), Ws, SegmentsKV(<<"black_square", "A">>),
        Ws, DownloadsKV(<<"check", "check", "play">>), Nl>>,
      <<Ws, Esc, Mark1, Esc, Mark2, Ws, StatKV("done", 12), Esc, Nl>> }

Record(src, text) == [id |-> Len(pushed) + 1, src |-> src, text |-> text]

\* queue.put on the service queue.
PutService(src, text) ==
    /\ Len(pushed) < MaxPush
    /\ output_log_queue' = Append(output_log_queue, Record(src, text))
    /\ pushed' = Append(pushed, Record(src, text))

\* queue.put on the worker queue.
PutWorker(src, text) ==
    /\ Len(pushed) < MaxPush
    /\ transcoder_queue' = Append(transcoder_queue, Record(src, text))
    /\ pushed' = Append(pushed, Record(src, text))

\* QueueHandler.emit: self._q.put(self.format(record)), whatever the text.
LogEmit ==
    /\ \E text \in ServiceTexts : PutService("service", text)
    /\ UNCHANGED <<widgets_set, transcoder_queue, dpc, flask_lines, transcoder_lines,
                   flask_log_widget, transcoder_log_widget, segment_map_widget,
                   stats_widget, tick>>
    /\ UNCHANGED supVars
    /\ UNCHANGED capVars
    /\ UNCHANGED last_drain

\* _StreamToQueue.write: if s.strip(): self._q.put(s.rstrip("\n"))
StreamWrite ==
    /\ \E s \in ServiceTexts :
          IF Strip(s) # <<>>
          THEN PutService("service", RStripNl(s))
          ELSE UNCHANGED <<output_log_queue, pushed>>
    /\ UNCHANGED <<widgets_set, transcoder_queue, dpc, flask_lines, transcoder_lines,
                   flask_log_widget, transcoder_log_widget, segment_map_widget,
                   stats_widget, tick>>
    /\ UNCHANGED supVars
    /\ UNCHANGED capVars
    /\ UNCHANGED last_drain

\* One stdout read of the capture loop, for a manager whose process has pipes
\* (ServiceOrchestrator is handed its transcoder_manager; the Popen call of
\* transcoder.py itself opens none, so there process.stdout is None):
\* line = process.stdout.readline(); decoded_line = line.strip();
\* if decoded_line: self._transcoder_queue.put(decoded_line)
CaptureStdout ==
    /\ \E line \in WorkerLines :
          IF Strip(line) # <<>>
          THEN PutWorker("stdout", Strip(line))
          ELSE UNCHANGED <<transcoder_queue, pushed>>
    /\ UNCHANGED <<widgets_set, output_log_queue, dpc, flask_lines, transcoder_lines,
                   flask_log_widget, transcoder_log_widget, segment_map_widget,
                   stats_widget, tick>>
    /\ UNCHANGED supVars
    /\ UNCHANGED capVars
    /\ UNCHANGED last_drain

\* line = process.stderr.readline(); ...put(f"[STDERR] {decoded_line}")
CaptureStderr ==
    /\ \E line \in WorkerLines :
          IF Strip(line) # <<>>
          THEN PutWorker("stderr", <<StderrTag>> \o Strip(line))
          ELSE UNCHANGED <<transcoder_queue, pushed>>
    /\ UNCHANGED <<widgets_set, output_log_queue, dpc, flask_lines, transcoder_lines,
                   flask_log_widget, transcoder_log_widget, segment_map_widget,
                   stats_widget, tick>>
    /\ UNCHANGED supVars
    /\ UNCHANGED capVars
    /\ UNCHANGED last_drain

\* ------------------------------------------------------------------ drain_logs
NoTick == [worker |-> <<>>, telemetry |-> <<>>]

\* ServiceOrchestrator.__init__: no widgets, an empty worker queue.
InitDrain ==
    /\ widgets_set = FALSE
    /\ output_log_queue = <<>>
    /\ transcoder_queue = <<>>
    /\ dpc = "idle"
    /\ flask_lines = <<>>
    /\ transcoder_lines = <<>>
    /\ flask_log_widget = <<>>
    /\ transcoder_log_widget = <<>>
    /\ segment_map_widget = <<>>
    /\ stats_widget = <<>>
    /\ pushed = <<>>
    /\ tick = NoTick
    /\ last_drain = "none"

SetUiWidgets ==
    /\ ~widgets_set
    /\ dpc = "idle"
    /\ widgets_set' = TRUE
    /\ UNCHANGED <<output_log_queue, transcoder_queue, dpc, flask_lines, transcoder_lines,
                   flask_log_widget, transcoder_log_widget, segment_map_widget,
                   stats_widget, pushed, tick>>
    /\ UNCHANGED supVars
    /\ UNCHANGED capVars
    /\ UNCHANGED last_drain

\* drain_logs without its guard: the tick begins whether or not the widgets are set.
DrainCall_NoGuard ==
    /\ dpc = "idle"
    /\ dpc' = "flask_get"
    /\ flask_lines' = <<>>
    /\ transcoder_lines' = <<>>
    /\ tick' = NoTick
    /\ last_drain' = "ran"
    /\ UNCHANGED <<widgets_set, output_log_queue, transcoder_queue, flask_log_widget,
                   transcoder_log_widget, segment_map_widget, stats_widget, pushed>>
    /\ UNCHANGED supVars
    /\ UNCHANGED capVars

\* drain_logs is entered: it returns at once unless all four widgets are set.
DrainCall ==
    /\ dpc = "idle"
    /\ IF widgets_set
       THEN /\ dpc' = "flask_get"
            /\ flask_lines' = <<>>
            /\ transcoder_lines' = <<>>
            /\ tick' = NoTick
            /\ last_drain' = "ran"
       ELSE /\ last_drain' = "returned"
            /\ UNCHANGED <<dpc, flask_lines, transcoder_lines, tick>>
    /\ UNCHANGED <<widgets_set, output_log_queue, transcoder_queue, flask_log_widget,
                   transcoder_log_widget, segment_map_widget, stats_widget, pushed>>
    /\ UNCHANGED supVars
    /\ UNCHANGED capVars

\* The service loop looking for the marker as the worker loop does: a service
\* record that holds it is shown on the telemetry display instead of the log.
DrainFlaskGet_Telemetry ==
    /\ dpc = "flask_get"
    /\ IF output_log_queue # <<>>
       THEN LET record == Head(output_log_queue)
                formatted == _format_log_record(record.text)
                status_info == parse_status_update_log(_strip_ansi(formatted))
            IN  /\ output_log_queue' = Tail(output_log_queue)
                /\ IF HasMarker(_strip_ansi(formatted))
                   THEN /\ segment_map_widget' = <<status_info.colored_segments>>
                        /\ stats_widget' = status_info.stats_line
                        /\ UNCHANGED flask_lines
                   ELSE /\ flask_lines' =
                              IF formatted # <<>>
                              THEN Append(flask_lines, [record EXCEPT !.text = _strip_ansi(formatted)])
                              ELSE flask_lines
                        /\ UNCHANGED <<segment_map_widget, stats_widget>>
                /\ dpc' = "flask_get"
       ELSE /\ dpc' = "flask_write"
            /\ UNCHANGED <<output_log_queue, flask_lines, segment_map_widget, stats_widget>>
    /\ UNCHANGED <<widgets_set, transcoder_queue, transcoder_lines, flask_log_widget,
                   transcoder_log_widget, pushed, tick>>
    /\ UNCHANGED supVars
    /\ UNCHANGED capVars
    /\ UNCHANGED last_drain

\* One turn of `while not self.output_log_queue.empty()`.
DrainFlaskGet ==
    /\ dpc = "flask_get"
    /\ IF output_log_queue # <<>>
       THEN LET record == Head(output_log_queue)
                formatted == _format_log_record(record.text)
            IN  /\ output_log_queue' = Tail(output_log_queue)
                /\ flask_lines' =
                      IF formatted # <<>>
                      THEN Append(flask_lines, [record EXCEPT !.text = _strip_ansi(formatted)])
                      ELSE flask_lines
                /\ dpc' = "flask_get"
       ELSE /\ dpc' = "flask_write"
            /\ UNCHANGED <<output_log_queue, flask_lines>>
    /\ UNCHANGED <<widgets_set, transcoder_queue, transcoder_lines, flask_log_widget,
                   transcoder_log_widget, segment_map_widget, stats_widget, pushed, tick>>
    /\ UNCHANGED supVars
    /\ UNCHANGED capVars
    /\ UNCHANGED last_drain

\* The flush without chunking: every line of the tick in one write.
DrainFlaskWrite_OneBatch ==
    /\ dpc = "flask_write"
    /\ IF flask_lines # <<>>
       THEN /\ flask_log_widget' = Append(flask_log_widget, flask_lines)
            /\ flask_lines' = <<>>
            /\ dpc' = "flask_write"
       ELSE /\ dpc' = "transcoder_get"
            /\ UNCHANGED <<flask_log_widget, flask_lines>>
    /\ UNCHANGED <<widgets_set, output_log_queue, transcoder_queue, transcoder_lines,
                   transcoder_log_widget, segment_map_widget, stats_widget, pushed, tick>>
    /\ UNCHANGED supVars
    /\ UNCHANGED capVars
    /\ UNCHANGED last_drain

\* One turn of `for i in range(0, len(flask_lines), chunk_size)`: one write.
DrainFlaskWrite ==
    /\ dpc = "flask_write"
    /\ IF flask_lines # <<>>
       THEN /\ flask_log_widget' =
                  Append(flask_log_widget, SubSeq(flask_lines, 1, Min(chunk_size, Len(flask_lines))))
            /\ flask_lines' = SubSeq(flask_lines, chunk_size + 1, Len(flask_lines))
            /\ dpc' = "flask_write"
       ELSE /\ dpc' = "transcoder_get"
            /\ UNCHANGED <<flask_log_widget, flask_lines>>
    /\ UNCHANGED <<widgets_set, output_log_queue, transcoder_queue, transcoder_lines,
                   transcoder_log_widget, segment_map_widget, stats_widget, pushed, tick>>
    /\ UNCHANGED supVars
    /\ UNCHANGED capVars
    /\ UNCHANGED last_drain

\* The same turn with segment_map_widget.clear() forgotten.
DrainTranscoderGet_NoClear ==
    /\ dpc = "transcoder_get"
    /\ IF transcoder_queue # <<>>
       THEN LET record == Head(transcoder_queue)
                line == Strip(_strip_ansi(record.text))
                status_info == parse_status_update_log(line)
            IN  /\ transcoder_queue' = Tail(transcoder_queue)
                /\ IF HasMarker(line)
                   THEN /\ segment_map_widget' =
                              Append(segment_map_widget, status_info.colored_segments)
                        /\ stats_widget' = status_info.stats_line
                        /\ tick' = [worker |-> Append(tick.worker, record.id),
                                    telemetry |-> Append(tick.telemetry, record.id)]
                        /\ UNCHANGED transcoder_lines
                   ELSE /\ transcoder_lines' =
                              Append(transcoder_lines, [record EXCEPT !.text = line])
                        /\ tick' = [tick EXCEPT !.worker = Append(tick.worker, record.id)]
                        /\ UNCHANGED <<segment_map_widget, stats_widget>>
                /\ dpc' = "transcoder_get"
       ELSE /\ dpc' = "transcoder_write"
            /\ UNCHANGED <<transcoder_queue, transcoder_lines, segment_map_widget,
                           stats_widget, tick>>
    /\ UNCHANGED <<widgets_set, output_log_queue, flask_lines, flask_log_widget,
                   transcoder_log_widget, pushed>>
    /\ UNCHANGED supVars
    /\ UNCHANGED capVars
    /\ UNCHANGED last_drain

\* The same turn with the new line put in front of the list.
DrainTranscoderGet_Prepend ==
    /\ dpc = "transcoder_get"
    /\ IF transcoder_queue # <<>>
       THEN LET record == Head(transcoder_queue)
                line == Strip(_strip_ansi(record.text))
                status_info == parse_status_update_log(line)
            IN  /\ transcoder_queue' = Tail(transcoder_queue)
                /\ IF HasMarker(line)
                   THEN /\ segment_map_widget' = <<status_info.colored_segments>>
                        /\ stats_widget' = status_info.stats_line
                        /\ tick' = [worker |-> Append(tick.worker, record.id),
                                    telemetry |-> Append(tick.telemetry, record.id)]
                        /\ UNCHANGED transcoder_lines
                   ELSE /\ transcoder_lines' =
                              <<[record EXCEPT !.text = line]>> \o transcoder_lines
                        /\ tick' = [tick EXCEPT !.worker = Append(tick.worker, record.id)]
                        /\ UNCHANGED <<segment_map_widget, stats_widget>>
                /\ dpc' = "transcoder_get"
       ELSE /\ dpc' = "transcoder_write"
            /\ UNCHANGED <<transcoder_queue, transcoder_lines, segment_map_widget,
                           stats_widget, tick>>
    /\ UNCHANGED <<widgets_set, output_log_queue, flask_lines, flask_log_widget,
                   transcoder_log_widget, pushed>>
    /\ UNCHANGED supVars
    /\ UNCHANGED capVars
    /\ UNCHANGED last_drain

\* The same turn with the stats line kept when the new status update holds
\* no counter at all.
DrainTranscoderGet_KeepStats ==
    /\ dpc = "transcoder_get"
    /\ IF transcoder_queue # <<>>
       THEN LET record == Head(transcoder_queue)
                line == Strip(_strip_ansi(record.text))
                status_info == parse_status_update_log(line)
            IN  /\ transcoder_queue' = Tail(transcoder_queue)
                /\ IF HasMarker(line)
                   THEN /\ segment_map_widget' = <<status_info.colored_segments>>
                        /\ stats_widget' = IF DOMAIN status_info.stats = {}
                                           THEN stats_widget
                                           ELSE status_info.stats_line
                        /\ tick' = [worker |-> Append(tick.worker, record.id),
                                    telemetry |-> Append(tick.telemetry, record.id)]
                        /\ UNCHANGED transcoder_lines
                   ELSE /\ transcoder_lines' =
                              Append(transcoder_lines, [record EXCEPT !.text = line])
                        /\ tick' = [tick EXCEPT !.worker = Append(tick.worker, record.id)]
                        /\ UNCHANGED <<segment_map_widget, stats_widget>>
                /\ dpc' = "transcoder_get"
       ELSE /\ dpc' = "transcoder_write"
            /\ UNCHANGED <<transcoder_queue, transcoder_lines, segment_map_widget,
                           stats_widget, tick>>
    /\ UNCHANGED <<widgets_set, output_log_queue, flask_lines, flask_log_widget,
                   transcoder_log_widget, pushed>>
    /\ UNCHANGED supVars
    /\ UNCHANGED capVars
    /\ UNCHANGED last_drain

\* The same turn with the marker looked for in the text as it was queued,
\* before the escape sequences are stripped.
DrainTranscoderGet_MarkerBeforeStrip ==
    /\ dpc = "transcoder_get"
    /\ IF transcoder_queue # <<>>
       THEN LET record == Head(transcoder_queue)
                line == Strip(_strip_ansi(record.text))
                status_info == parse_status_update_log(line)
            IN  /\ transcoder_queue' = Tail(transcoder_queue)
                /\ IF HasMarker(record.text)
                   THEN /\ segment_map_widget' = <<status_info.colored_segments>>
                        /\ stats_widget' = status_info.stats_line
                        /\ tick' = [worker |-> Append(tick.worker, record.id),
                                    telemetry |-> Append(tick.telemetry, record.id)]
                        /\ UNCHANGED transcoder_lines
                   ELSE /\ transcoder_lines' =
                              Append(transcoder_lines, [record EXCEPT !.text = line])
                        /\ tick' = [tick EXCEPT !.worker = Append(tick.worker, record.id)]
                        /\ UNCHANGED <<segment_map_widget, stats_widget>>
                /\ dpc' = "transcoder_get"
       ELSE /\ dpc' = "transcoder_write"
            /\ UNCHANGED <<transcoder_queue, transcoder_lines, segment_map_widget,
                           stats_widget, tick>>
    /\ UNCHANGED <<widgets_set, output_log_queue, flask_lines, flask_log_widget,
                   transcoder_log_widget, pushed>>
    /\ UNCHANGED supVars
    /\ UNCHANGED capVars
    /\ UNCHANGED last_drain

\* One turn of `while not self._transcoder_queue.empty()`: a status update is
\* parsed and shown at once (clear, write, update) and skipped by `continue`;
\* any other line joins transcoder_lines.
DrainTranscoderGet ==
    /\ dpc = "transcoder_get"
    /\ IF transcoder_queue # <<>>
       THEN LET record == Head(transcoder_queue)
                line == Strip(_strip_ansi(record.text))
                status_info == parse_status_update_log(line)
            IN  /\ transcoder_queue' = Tail(transcoder_queue)
                /\ IF HasMarker(line)
                   THEN /\ segment_map_widget' = <<status_info.colored_segments>>
                        /\ stats_widget' = status_info.stats_line
                        /\ tick' = [worker |-> Append(tick.worker, record.id),
                                    telemetry |-> Append(tick.telemetry, record.id)]
                        /\ UNCHANGED transcoder_lines
                   ELSE /\ transcoder_lines' =
                              Append(transcoder_lines, [record EXCEPT !.text = line])
                        /\ tick' = [tick EXCEPT !.worker = Append(tick.worker, record.id)]
                        /\ UNCHANGED <<segment_map_widget, stats_widget>>
                /\ dpc' = "transcoder_get"
       ELSE /\ dpc' = "transcoder_write"
            /\ UNCHANGED <<transcoder_queue, transcoder_lines, segment_map_widget,
                           stats_widget, tick>>
    /\ UNCHANGED <<widgets_set, output_log_queue, flask_lines, flask_log_widget,
                   transcoder_log_widget, pushed>>
    /\ UNCHANGED supVars
    /\ UNCHANGED capVars
    /\ UNCHANGED last_drain

\* The flush with `if transcoder_lines:` dropped: a write, and its pause, even
\* when the tick holds no line.
DrainTranscoderWrite_EmptyBatch ==
    /\ dpc = "transcoder_write"
    /\ transcoder_log_widget' =
          Append(transcoder_log_widget,
                 SubSeq(transcoder_lines, 1, Min(chunk_size, Len(transcoder_lines))))
    /\ transcoder_lines' = SubSeq(transcoder_lines, chunk_size + 1, Len(transcoder_lines))
    /\ dpc' = IF Len(transcoder_lines) > chunk_size THEN "transcoder_write" ELSE "idle"
    /\ UNCHANGED <<widgets_set, output_log_queue, transcoder_queue, flask_lines,
                   flask_log_widget, segment_map_widget, stats_widget, pushed, tick>>
    /\ UNCHANGED supVars
    /\ UNCHANGED capVars
    /\ UNCHANGED last_drain

\* One turn of `for i in range(0, len(transcoder_lines), chunk_size)`; after
\* the last one drain_logs returns.
DrainTranscoderWrite ==
    /\ dpc = "transcoder_write"
    /\ IF transcoder_lines # <<>>
       THEN /\ transcoder_log_widget' =
                  Append(transcoder_log_widget,
                         SubSeq(transcoder_lines, 1, Min(chunk_size, Len(transcoder_lines))))
            /\ transcoder_lines' = SubSeq(transcoder_lines, chunk_size + 1, Len(transcoder_lines))
            /\ dpc' = "transcoder_write"
       ELSE /\ dpc' = "idle"
            /\ UNCHANGED <<transcoder_log_widget, transcoder_lines>>
    /\ UNCHANGED <<widgets_set, output_log_queue, transcoder_queue, flask_lines,
                   flask_log_widget, segment_map_widget, stats_widget, pushed, tick>>
    /\ UNCHANGED supVars
    /\ UNCHANGED capVars
    /\ UNCHANGED last_drain

\* A call drain_logs makes raises: a widget's write(), clear() or update(), or
\* the parse of a status update. drain_logs catches queue.Empty only, so the
\* exception leaves it: the lines it holds in its local lists go with it, and
\* so does the status update it had just dequeued.
DrainRaises ==
    /\ \/ /\ dpc = "flask_write"
          /\ flask_lines # <<>>
          /\ UNCHANGED transcoder_queue
       \/ /\ dpc = "transcoder_get"
          /\ transcoder_queue # <<>>
          /\ HasMarker(Strip(_strip_ansi(Head(transcoder_queue).text)))
          /\ transcoder_queue' = Tail(transcoder_queue)
       \/ /\ dpc = "transcoder_write"
          /\ transcoder_lines # <<>>
          /\ UNCHANGED transcoder_queue
    /\ dpc' = "raised"
    /\ flask_lines' = <<>>
    /\ transcoder_lines' = <<>>
    /\ UNCHANGED <<widgets_set, output_log_queue, flask_log_widget, transcoder_log_widget,
                   segment_map_widget, stats_widget, pushed, tick>>
    /\ UNCHANGED supVars
    /\ UNCHANGED capVars
    /\ UNCHANGED last_drain

\* ------------------------------------------------------------------ capture thread
\* How many lines the worker writes in one run.
MaxWrite == 2

\* What the worker writes: a line with text (indented), a blank one, and a
\* line that itself begins with the characters "[STDERR] ".
CapLines == { <<Ws, Txt("a"), Nl>>, <<Ws, Nl>>, <<StderrTag, Txt("a"), Nl>> }

StartingMsg == <<Txt("Starting transcoder...")>>

StartedMsg == <<Txt("Transcoder started successfully")>>

TerminatedMsg == <<Txt("Transcoder process has terminated")>>

\* ServiceOrchestrator.__init__ and _start_transcoder_capture: the thread
\* exists and has not run yet, the flag is clear; no worker, so no pipes.
InitCapture ==
    /\ cpc = "entry"
    /\ should_stop = FALSE
    /\ tproc = NoProcess
    /\ piped = FALSE
    /\ stdout_pipe = <<>>
    /\ stderr_pipe = <<>>
    /\ written = <<>>
    /\ failed = "none"

\* self._transcoder_queue.put(...) by the capture thread.
PutCapture(src, text) ==
    /\ transcoder_queue' = Append(transcoder_queue, Record(src, text))
    /\ pushed' = Append(pushed, Record(src, text))

\* An exception leaves capture_transcoder_output: the thread ends.
Crash(why) ==
    /\ cpc' = "crashed"
    /\ failed' = why

\* The worker writes one line to one of its two streams; without pipes the
\* line goes to the terminal the worker inherited.
WorkerWrite ==
    /\ process # NoProcess
    /\ worker[process] = "alive"
    /\ Len(written) < MaxWrite
    /\ \E src \in {"stdout", "stderr"}, line \in CapLines :
          /\ written' = Append(written, [src |-> src, line |-> line])
          /\ stdout_pipe' = IF piped /\ src = "stdout" THEN Append(stdout_pipe, line) ELSE stdout_pipe
          /\ stderr_pipe' = IF piped /\ src = "stderr" THEN Append(stderr_pipe, line) ELSE stderr_pipe
    /\ UNCHANGED <<cpc, should_stop, tproc, piped, failed>>
    /\ UNCHANGED supVars
    /\ UNCHANGED drainVars

\* if ... self.transcoder_manager.process is None: put("Starting transcoder...")
CapEntry ==
    /\ cpc = "entry"
    /\ orch.transcoder_thread
    /\ IF process = NoProcess
       THEN /\ PutCapture("capture", StartingMsg)
            /\ cpc' = "start_cfg"
       ELSE /\ cpc' = "bind"
            /\ UNCHANGED <<transcoder_queue, pushed>>
    /\ UNCHANGED <<should_stop, tproc, piped, stdout_pipe, stderr_pipe, written, failed>>
    /\ UNCHANGED supVars
    /\ UNCHANGED <<widgets_set, output_log_queue, dpc, flask_lines, transcoder_lines,
                   flask_log_widget, transcoder_log_widget, segment_map_widget,
                   stats_widget, tick>>
    /\ UNCHANGED last_drain

\* self.transcoder_manager.start(), run by the capture thread: the config is
\* written, or reading, formatting or writing it raises.
CapStartConfig ==
    /\ cpc = "start_cfg"
    /\ \/ /\ Format(template) # FormatError
          /\ config' = "complete"
          /\ config_text' = Format(template)
          /\ cpc' = "start_spawn"
          /\ UNCHANGED failed
       \/ /\ UNCHANGED <<config, config_text>>
          /\ Crash("config")
       \/ /\ Format(template) # FormatError
          /\ config' = "partial"
          /\ config_text' = <<>>
          /\ Crash("config")
    /\ UNCHANGED <<should_stop, tproc, piped, stdout_pipe, stderr_pipe, written>>
    /\ UNCHANGED <<process, worker, spawned, signals, pc, call>>
    /\ UNCHANGED <<template, media_dir, transcoder_port>>
    /\ UNCHANGED stops
    /\ UNCHANGED appVars
    /\ UNCHANGED drainVars

\* self.process = subprocess.Popen(...), with or without pipes; or Popen raises.
CapStartSpawn ==
    /\ cpc = "start_spawn"
    /\ spawned < MaxSpawn
    /\ \/ /\ spawned' = spawned + 1
          /\ worker' = [worker EXCEPT ![spawned + 1] = "alive"]
          /\ process' = spawned + 1
          /\ piped' \in BOOLEAN
          /\ cpc' = "start_settle"
          /\ UNCHANGED failed
       \/ /\ Crash("popen")
          /\ UNCHANGED <<spawned, worker, process, piped>>
    /\ UNCHANGED <<should_stop, tproc, stdout_pipe, stderr_pipe, written>>
    /\ UNCHANGED <<config, signals, pc, call>>
    /\ UNCHANGED drainVars
    /\ UNCHANGED cfgVars
    /\ UNCHANGED stops
    /\ UNCHANGED appVars

\* time.sleep(1); if self.process.poll() is not None: sys.exit(1). The handle
\* is read again here: None.poll() raises when stop() has cleared it meanwhile.
CapStartPoll ==
    /\ cpc = "start_settle"
    /\ IF process = NoProcess THEN Crash("attribute")
       ELSE IF worker[process] = "alive" THEN cpc' = "started" /\ UNCHANGED failed
       ELSE Crash("exit1")
    /\ UNCHANGED <<should_stop, tproc, piped, stdout_pipe, stderr_pipe, written>>
    /\ UNCHANGED supVars
    /\ UNCHANGED drainVars

\* self._transcoder_queue.put("Transcoder started successfully")
CapStarted ==
    /\ cpc = "started"
    /\ PutCapture("capture", StartedMsg)
    /\ cpc' = "bind"
    /\ UNCHANGED <<should_stop, tproc, piped, stdout_pipe, stderr_pipe, written, failed>>
    /\ UNCHANGED supVars
    /\ UNCHANGED <<widgets_set, output_log_queue, dpc, flask_lines, transcoder_lines,
                   flask_log_widget, transcoder_log_widget, segment_map_widget,
                   stats_widget, tick>>
    /\ UNCHANGED last_drain

\* process = self.transcoder_manager.process; if process is None: raise RuntimeError
CapBind ==
    /\ cpc = "bind"
    /\ tproc' = process
    /\ IF process = NoProcess THEN Crash("runtime")
       ELSE cpc' = "loop" /\ UNCHANGED failed
    /\ UNCHANGED <<should_stop, piped, stdout_pipe, stderr_pipe, written>>
    /\ UNCHANGED supVars
    /\ UNCHANGED drainVars

\* while not self._should_stop.is_set()
CapLoop ==
    /\ cpc = "loop"
    /\ cpc' = IF should_stop THEN "done" ELSE "poll"
    /\ UNCHANGED <<should_stop, tproc, piped, stdout_pipe, stderr_pipe, written, failed>>
    /\ UNCHANGED supVars
    /\ UNCHANGED drainVars

\* The poll without its break: the marker is put and the loop goes on reading.
CapPoll_NoBreak ==
    /\ cpc = "poll"
    /\ IF worker[tproc] # "alive"
       THEN PutCapture("capture", TerminatedMsg)
       ELSE UNCHANGED <<transcoder_queue, pushed>>
    /\ cpc' = "read_stdout"
    /\ UNCHANGED <<should_stop, tproc, piped, stdout_pipe, stderr_pipe, written, failed>>
    /\ UNCHANGED supVars
    /\ UNCHANGED <<widgets_set, output_log_queue, dpc, flask_lines, transcoder_lines,
                   flask_log_widget, transcoder_log_widget, segment_map_widget,
                   stats_widget, tick>>
    /\ UNCHANGED last_drain

\* if process.poll() is not None: put("Transcoder process has terminated"); break
CapPoll ==
    /\ cpc = "poll"
    /\ IF worker[tproc] # "alive"
       THEN /\ PutCapture("capture", TerminatedMsg)
            /\ cpc' = "done"
       ELSE /\ cpc' = "read_stdout"
            /\ UNCHANGED <<transcoder_queue, pushed>>
    /\ UNCHANGED <<should_stop, tproc, piped, stdout_pipe, stderr_pipe, written, failed>>
    /\ UNCHANGED supVars
    /\ UNCHANGED <<widgets_set, output_log_queue, dpc, flask_lines, transcoder_lines,
                   flask_log_widget, transcoder_log_widget, segment_map_widget,
                   stats_widget, tick>>
    /\ UNCHANGED last_drain

\* readline() on a pipe returns the next line, or '' at end of file (the
\* worker is gone and nothing is left); it blocks while the worker lives and
\* the pipe is empty.
CanRead(pipe) == pipe # <<>> \/ worker[tproc] # "alive"

\* if process.stdout and process.stdout.readable(): line = readline();
\* if line: decoded_line = line.strip(); if decoded_line: put(decoded_line)
CapReadStdout ==
    /\ cpc = "read_stdout"
    /\ piped => CanRead(stdout_pipe)
    /\ IF piped /\ stdout_pipe # <<>>
       THEN /\ stdout_pipe' = Tail(stdout_pipe)
            /\ IF Strip(Head(stdout_pipe)) # <<>>
               THEN PutCapture("stdout", Strip(Head(stdout_pipe)))
               ELSE UNCHANGED <<transcoder_queue, pushed>>
       ELSE UNCHANGED <<stdout_pipe, transcoder_queue, pushed>>
    /\ cpc' = "read_stderr"
    /\ UNCHANGED <<should_stop, tproc, piped, stderr_pipe, written, failed>>
    /\ UNCHANGED supVars
    /\ UNCHANGED <<widgets_set, output_log_queue, dpc, flask_lines, transcoder_lines,
                   flask_log_widget, transcoder_log_widget, segment_map_widget,
                   stats_widget, tick>>
    /\ UNCHANGED last_drain

\* The stderr read without the "[STDERR] " prefix.
CapReadStderr_NoTag ==
    /\ cpc = "read_stderr"
    /\ piped => CanRead(stderr_pipe)
    /\ IF piped /\ stderr_pipe # <<>>
       THEN /\ stderr_pipe' = Tail(stderr_pipe)
            /\ IF Strip(Head(stderr_pipe)) # <<>>
               THEN PutCapture("stderr", Strip(Head(stderr_pipe)))
               ELSE UNCHANGED <<transcoder_queue, pushed>>
       ELSE UNCHANGED <<stderr_pipe, transcoder_queue, pushed>>
    /\ cpc' = "loop"
    /\ UNCHANGED <<should_stop, tproc, piped, stdout_pipe, written, failed>>
    /\ UNCHANGED supVars
    /\ UNCHANGED <<widgets_set, output_log_queue, dpc, flask_lines, transcoder_lines,
                   flask_log_widget, transcoder_log_widget, segment_map_widget,
                   stats_widget, tick>>
    /\ UNCHANGED last_drain

\* The same for stderr, with put(f"[STDERR] {decoded_line}"); then
\* time.sleep(0.01) and back to the loop test.
CapReadStderr ==
    /\ cpc = "read_stderr"
    /\ piped => CanRead(stderr_pipe)
    /\ IF piped /\ stderr_pipe # <<>>
       THEN /\ stderr_pipe' = Tail(stderr_pipe)
            /\ IF Strip(Head(stderr_pipe)) # <<>>
               THEN PutCapture("stderr", <<StderrTag>> \o Strip(Head(stderr_pipe)))
               ELSE UNCHANGED <<transcoder_queue, pushed>>
       ELSE UNCHANGED <<stderr_pipe, transcoder_queue, pushed>>
    /\ cpc' = "loop"
    /\ UNCHANGED <<should_stop, tproc, piped, stdout_pipe, written, failed>>
    /\ UNCHANGED supVars
    /\ UNCHANGED <<widgets_set, output_log_queue, dpc, flask_lines, transcoder_lines,
                   flask_log_widget, transcoder_log_widget, segment_map_widget,
                   stats_widget, tick>>
    /\ UNCHANGED last_drain

\* The read failure handled as HostTUI._capture_transcoder_output does: the
\* application is told to exit, so no drain tick runs any more.
CapReadFails_ExitsApp ==
    /\ cpc \in {"read_stdout", "read_stderr"}
    /\ piped
    /\ Crash("read")
    /\ dpc' = "exited"
    /\ UNCHANGED <<should_stop, tproc, piped, stdout_pipe, stderr_pipe, written>>
    /\ UNCHANGED supVars
    /\ UNCHANGED <<widgets_set, output_log_queue, transcoder_queue, flask_lines,
                   transcoder_lines, flask_log_widget, transcoder_log_widget,
                   segment_map_widget, stats_widget, pushed, tick>>
    /\ UNCHANGED last_drain

\* readable() or readline() raises on a closed or broken stream: nothing in
\* capture_transcoder_output catches it.
CapReadFails ==
    /\ cpc \in {"read_stdout", "read_stderr"}
    /\ piped
    /\ Crash("read")
    /\ UNCHANGED <<should_stop, tproc, piped, stdout_pipe, stderr_pipe, written>>
    /\ UNCHANGED supVars
    /\ UNCHANGED drainVars

\* ServiceOrchestrator.stop(): self._should_stop.set()
OrchStopSetFlag ==
    /\ ~should_stop
    /\ should_stop' = TRUE
    /\ UNCHANGED <<cpc, tproc, piped, stdout_pipe, stderr_pipe, written, failed>>
    /\ UNCHANGED supVars
    /\ UNCHANGED drainVars

\* ServiceOrchestrator.stop(): self.transcoder_manager.stop(), once the flag is set.
OrchStopTranscoder ==
    /\ should_stop
    /\ call.op # "stop"
    /\ StopCall

\* ------------------------------------------------------------------ specification
Init == InitSupervisor /\ InitDrain /\ InitCapture

Next ==
    \/ WorkerExit
    \/ StartCall
    \/ StartConfigOk
    \/ StartConfigFail
    \/ StartSpawn
    \/ StartSpawnFail
    \/ StartPoll
    \/ StopCall
    \/ StopTerminate
    \/ StopWait
    \/ StopKillTimeout
    \/ StopExcept
    \/ StopFinally

\* The supervisor under any sequence of start() and stop() calls.
Spec == Init /\ [][Next]_vars

NextDrain ==
    \/ LogEmit
    \/ StreamWrite
    \/ CaptureStdout
    \/ CaptureStderr
    \/ SetUiWidgets
    \/ DrainCall
    \/ DrainFlaskGet
    \/ DrainFlaskWrite
    \/ DrainTranscoderGet
    \/ DrainTranscoderWrite

\* The producers and the drain tick, interleaved.
SpecDrain == Init /\ [][NextDrain]_vars

NextCapture ==
    \/ WorkerWrite
    \/ WorkerExit
    \/ CapEntry
    \/ CapStartConfig
    \/ CapStartSpawn
    \/ CapStartPoll
    \/ CapStarted
    \/ CapBind
    \/ CapLoop
    \/ CapPoll
    \/ CapReadStdout
    \/ CapReadStderr
    \/ CapReadFails
    \/ OrchStopSetFlag
    \/ OrchStopTranscoder
    \/ StopTerminate
    \/ StopWait
    \/ StopKillTimeout
    \/ StopExcept
    \/ StopFinally

\* The capture thread, the worker it reads, and the orchestrator's stop().
SpecCapture == Init /\ [][NextCapture]_vars

\* The capture thread has started the worker (with pipes), pushed its two
\* messages and reached its loop; the worker has written one line to each
\* stream meanwhile; the widgets are registered.
InitPipeline ==
    /\ process = 1
    /\ worker = [p \in Pids |-> IF p = 1 THEN "alive" ELSE "unborn"]
    /\ spawned = 1
    /\ config = "complete"
    /\ signals = <<>>
    /\ pc = "idle"
    /\ call = NoCall
    /\ template = DefaultTemplate
    /\ media_dir = DefaultMediaDir
    /\ transcoder_port = 8080
    /\ config_text = <<"x", "/", "m", "x", "8", "0", "8", "0">>
    /\ stops = NoStops
    /\ orch = OrchStarted
    /\ host = HostRunning
    /\ sprite = NewSpriteBuilder
    /\ cpc = "loop"
    /\ should_stop = FALSE
    /\ tproc = 1
    /\ piped = TRUE
    /\ stdout_pipe = << <<Ws, Txt("a"), Nl>> >>
    /\ stderr_pipe = << <<Ws, Txt("a"), Nl>> >>
    /\ written = << [src |-> "stdout", line |-> <<Ws, Txt("a"), Nl>>],
                    [src |-> "stderr", line |-> <<Ws, Txt("a"), Nl>>] >>
    /\ failed = "none"
    /\ widgets_set = TRUE
    /\ output_log_queue = <<>>
    /\ transcoder_queue = << [id |-> 1, src |-> "capture", text |-> StartingMsg],
                             [id |-> 2, src |-> "capture", text |-> StartedMsg] >>
    /\ pushed = transcoder_queue
    /\ dpc = "idle"
    /\ flask_lines = <<>>
    /\ transcoder_lines = <<>>
    /\ flask_log_widget = <<>>
    /\ transcoder_log_widget = <<>>
    /\ segment_map_widget = <<>>
    /\ stats_widget = <<>>
    /\ tick = NoTick
    /\ last_drain = "none"

NextPipeline ==
    \/ WorkerExit
    \/ CapLoop
    \/ CapPoll
    \/ CapReadStdout
    \/ CapReadStderr
    \/ CapReadFails
    \/ LogEmit
    \/ DrainCall
    \/ DrainFlaskGet
    \/ DrainFlaskWrite
    \/ DrainTranscoderGet
    \/ DrainTranscoderWrite

\* The capture loop reading the two lines the worker has written, the
\* service's log handler and the drain tick together.
SpecPipeline == InitPipeline /\ [][NextPipeline]_vars

\* ------------------------------------------------------------------ a backlog
\* How many records each queue holds when the first drain tick comes.
MaxQueued == 12

\* n service records; with mixed, every third has an empty text.
QueuedService(n, mixed) ==
    [i \in 1 .. n |->
        [id |-> i, src |-> "service",
         text |-> IF mixed /\ i % 3 = 0 THEN <<>> ELSE <<Esc, Txt("b")>>]]

\* n worker records numbered after `first`; with mixed, every third is a status update.
QueuedWorker(first, n, mixed) ==
    [i \in 1 .. n |->
        [id |-> first + i, src |-> "stdout",
         text |-> IF mixed /\ i % 3 = 0
                  THEN <<Mark1, Mark2, Ws, StatKV("queued", i)>>
                  ELSE <<Txt("a")>>]]

\* The producers have filled both queues before the widgets are registered.
InitBatch ==
    /\ InitSupervisor
    /\ InitCapture
    /\ widgets_set = FALSE
    /\ dpc = "idle"
    /\ flask_lines = <<>>
    /\ transcoder_lines = <<>>
    /\ flask_log_widget = <<>>
    /\ transcoder_log_widget = <<>>
    /\ segment_map_widget = <<>>
    /\ stats_widget = <<>>
    /\ tick = NoTick
    /\ last_drain = "none"
    /\ \E ns \in 0 .. MaxQueued, nw \in 0 .. MaxQueued, mixed \in BOOLEAN :
          /\ output_log_queue = QueuedService(ns, mixed)
          /\ transcoder_queue = QueuedWorker(ns, nw, mixed)
          /\ pushed = QueuedService(ns, mixed) \o QueuedWorker(ns, nw, mixed)

NextBatch ==
    \/ SetUiWidgets
    \/ DrainCall
    \/ DrainFlaskGet
    \/ DrainFlaskWrite
    \/ DrainTranscoderGet
    \/ DrainTranscoderWrite

\* drain_logs working through a backlog, with no producer running.
SpecBatch == InitBatch /\ [][NextBatch]_vars

NextBatchFail ==
    \/ NextBatch
    \/ DrainRaises

\* The same, with consumers and a parser that may raise.
SpecBatchFail == InitBatch /\ [][NextBatchFail]_vars

\* ------------------------------------------------------------------ one status update
\* How many glyphs the segments and the downloads value of a line hold at most.
MaxGlyphs == 2

\* Segment glyphs: the two full squares and one other.
SegGlyphs == {"full_block", "black_square", "A"}

\* Download glyphs: done, in progress, error, the filler glyph itself, one other.
DlGlyphs == {"check", "play", "bang", "dash", "x"}

SeqsUpTo(S, n) == UNION {[1 .. k -> S] : k \in 0 .. n}

\* The worker queue holds one line, read from the worker's stdout; nothing
\* else has happened.
InitWithLine(line) ==
    /\ InitSupervisor
    /\ InitCapture
    /\ widgets_set = FALSE
    /\ output_log_queue = <<>>
    /\ transcoder_queue = << [id |-> 1, src |-> "stdout", text |-> line] >>
    /\ pushed = transcoder_queue
    /\ dpc = "idle"
    /\ flask_lines = <<>>
    /\ transcoder_lines = <<>>
    /\ flask_log_widget = <<>>
    /\ transcoder_log_widget = <<>>
    /\ segment_map_widget = <<>>
    /\ stats_widget = <<>>
    /\ tick = NoTick
    /\ last_drain = "none"

\* A status update with any segments and downloads values, the empty ones
\* (segments="") included.
InitRender ==
    \E segments \in SeqsUpTo(SegGlyphs, MaxGlyphs), downloads \in SeqsUpTo(DlGlyphs, MaxGlyphs) :
        InitWithLine(<<Mark1, Mark2, Ws, SegmentsKV(segments), Ws, DownloadsKV(downloads)>>)

\* drain_logs parsing and rendering one status update.
SpecRender == InitRender /\ [][NextBatch]_vars

StatOrder == <<"queued", "in_progress", "done", "dl_requested", "dl_sent">>

\* The counters of a line, those of `present` only, each with a value of its own.
StatTokens(present) ==
    LET value == [queued |-> 3, in_progress |-> 1, done |-> 12, dl_requested |-> 2, dl_sent |-> 1]
        kept == SelectSeq(StatOrder, LAMBDA name : name \in present)
    IN  [i \in 1 .. Len(kept) |-> StatKV(kept[i], value[kept[i]])]

\* A status update holding any subset of the five counters, with or without
\* a segments key and a downloads key.
InitParse ==
    \E present \in SUBSET StatNames, seg \in BOOLEAN, dl \in BOOLEAN :
        InitWithLine(<<Mark1, Mark2>> \o StatTokens(present)
                        \o (IF seg THEN <<SegmentsKV(<<"A", "full_block">>)>> ELSE <<>>)
                        \o (IF dl THEN <<DownloadsKV(<<"check", "play">>)>> ELSE <<>>))

\* drain_logs parsing one status update that lacks fields.
SpecParse == InitParse /\ [][NextBatch]_vars

\* ------------------------------------------------------------------ two status updates
\* A status update with the counters of `present` (each k above its usual
\* value), with or without a segments and a downloads value.
UpdateLine(present, seg, dl, k) ==
    <<Mark1, Mark2>>
        \o [i \in 1 .. Len(StatTokens(present)) |->
               StatKV(StatTokens(present)[i].v[1], StatTokens(present)[i].n + k)]
        \o (IF seg THEN <<SegmentsKV(IF k = 0 THEN <<"A", "full_block">>
                                      ELSE <<"black_square", "A", "A">>)>>
            ELSE <<>>)
        \o (IF dl THEN <<DownloadsKV(IF k = 0 THEN <<"check", "play", "bang">> ELSE <<"check">>)>>
            ELSE <<>>)

UpdateLines(k) ==
    { UpdateLine(present, seg, dl, k) :
        present \in SUBSET {"queued", "done", "dl_sent"}, seg \in BOOLEAN, dl \in BOOLEAN }

\* The worker queue holds two status updates, read from the worker's stdout
\* one after the other, and nothing else has happened.
InitSnapshots ==
    /\ InitSupervisor
    /\ InitCapture
    /\ widgets_set = FALSE
    /\ output_log_queue = <<>>
    /\ \E first \in UpdateLines(0), second \in UpdateLines(5) :
          transcoder_queue = << [id |-> 1, src |-> "stdout", text |-> first],
                                [id |-> 2, src |-> "stdout", text |-> second] >>
    /\ pushed = transcoder_queue
    /\ dpc = "idle"
    /\ flask_lines = <<>>
    /\ transcoder_lines = <<>>
    /\ flask_log_widget = <<>>
    /\ transcoder_log_widget = <<>>
    /\ segment_map_widget = <<>>
    /\ stats_widget = <<>>
    /\ tick = NoTick
    /\ last_drain = "none"

\* drain_logs showing one status update after another.
SpecSnapshots == InitSnapshots /\ [][NextBatch]_vars

\* ------------------------------------------------------------------ a mixed backlog
\* How many records each queue holds at most when the tick comes.
MaxMixed == 2

\* What the capture loop puts for the lines of WorkerLines: the stripped
\* line of stdout, the stripped line of stderr behind its prefix; nothing
\* for a blank line.
CapturedTexts ==
    {Strip(line) : line \in {l \in WorkerLines : Strip(l) # <<>>}}
        \cup {<<StderrTag>> \o Strip(line) : line \in {l \in WorkerLines : Strip(l) # <<>>}}

Numbered(texts, first, src) ==
    [i \in 1 .. Len(texts) |-> [id |-> first + i, src |-> src, text |-> texts[i]]]

\* What a worker record was read from: stderr if it carries the prefix.
StreamOf(text) == IF text # <<>> /\ Head(text) = StderrTag THEN "stderr" ELSE "stdout"

\* The log handler and the capture loop have queued any records they can
\* queue, the status updates among them, before the widgets are registered.
InitMixed ==
    /\ InitSupervisor
    /\ InitCapture
    /\ widgets_set = FALSE
    /\ dpc = "idle"
    /\ flask_lines = <<>>
    /\ transcoder_lines = <<>>
    /\ flask_log_widget = <<>>
    /\ transcoder_log_widget = <<>>
    /\ segment_map_widget = <<>>
    /\ stats_widget = <<>>
    /\ tick = NoTick
    /\ last_drain = "none"
    /\ \E st \in SeqsUpTo(ServiceTexts, MaxMixed), wt \in SeqsUpTo(CapturedTexts, MaxMixed) :
          /\ output_log_queue = Numbered(st, 0, "service")
          /\ transcoder_queue =
                [i \in 1 .. Len(wt) |-> [id |-> Len(st) + i, src |-> StreamOf(wt[i]), text |-> wt[i]]]
          /\ pushed = output_log_queue \o transcoder_queue

\* drain_logs sorting a backlog of plain lines and status updates.
SpecMixed == InitMixed /\ [][NextBatch]_vars

\* ------------------------------------------------------------------ one tick, producers running
\* The widgets are registered and drain_logs has just been entered with both
\* queues empty: whatever this tick handles is put while it runs.
InitTickBegun ==
    /\ InitSupervisor
    /\ InitCapture
    /\ widgets_set = TRUE
    /\ output_log_queue = <<>>
    /\ transcoder_queue = <<>>
    /\ pushed = <<>>
    /\ dpc = "flask_get"
    /\ flask_lines = <<>>
    /\ transcoder_lines = <<>>
    /\ flask_log_widget = <<>>
    /\ transcoder_log_widget = <<>>
    /\ segment_map_widget = <<>>
    /\ stats_widget = <<>>
    /\ tick = NoTick
    /\ last_drain = "ran"

NextTick ==
    \/ LogEmit
    \/ CaptureStdout
    \/ CaptureStderr
    \/ DrainFlaskGet
    \/ DrainFlaskWrite
    \/ DrainTranscoderGet
    \/ DrainTranscoderWrite

\* That one call of drain_logs, to its return, with the producers running.
SpecTick == InitTickBegun /\ [][NextTick]_vars

\* ------------------------------------------------------------------ escape sequences
\* How many tokens the text of the queued record holds at most.
MaxEsc == 3

\* Texts made of whole escape sequences, ESC characters, the characters
\* "[0m" and an ordinary character, in any order.
EscTexts == SeqsUpTo({Esc, EscByte, CsiTail, Txt("a")}, MaxEsc)

\* One record is queued, on the service queue or on the worker queue.
InitEscapes ==
    /\ InitSupervisor
    /\ InitCapture
    /\ widgets_set = FALSE
    /\ dpc = "idle"
    /\ flask_lines = <<>>
    /\ transcoder_lines = <<>>
    /\ flask_log_widget = <<>>
    /\ transcoder_log_widget = <<>>
    /\ segment_map_widget = <<>>
    /\ stats_widget = <<>>
    /\ tick = NoTick
    /\ last_drain = "none"
    /\ \E text \in EscTexts, service \in BOOLEAN :
          /\ output_log_queue = IF service THEN Numbered(<<text>>, 0, "service") ELSE <<>>
          /\ transcoder_queue = IF service THEN <<>> ELSE Numbered(<<text>>, 0, "stdout")
          /\ pushed = output_log_queue \o transcoder_queue

\* drain_logs cleaning one record.
SpecEscapes == InitEscapes /\ [][NextBatch]_vars

\* ------------------------------------------------------------------ counters of any size
\* Counter values of one, two and three digits.
Counts == {0, 9, 10, 123}

\* A status update holding the five counters, each with any of those values.
InitStats ==
    \E q \in Counts, i \in Counts, d \in Counts, r \in Counts, t \in Counts :
        InitWithLine(<<Mark1, Mark2, Ws, StatKV("queued", q), Ws, StatKV("in_progress", i), Ws,
                       StatKV("done", d), Ws, StatKV("dl_requested", r), Ws, StatKV("dl_sent", t)>>)

\* drain_logs building the stats line of one status update.
SpecStats == InitStats /\ [][NextBatch]_vars

\* ------------------------------------------------------------------ the same line twice
\* The worker queue holds a status update, another one, and the first again.
InitRepeat ==
    /\ InitSupervisor
    /\ InitCapture
    /\ widgets_set = FALSE
    /\ output_log_queue = <<>>
    /\ \E first \in UpdateLines(0), seg \in BOOLEAN, dl \in BOOLEAN :
          transcoder_queue =
              Numbered(<<first, UpdateLine({"done"}, seg, dl, 5), first>>, 0, "stdout")
    /\ pushed = transcoder_queue
    /\ dpc = "idle"
    /\ flask_lines = <<>>
    /\ transcoder_lines = <<>>
    /\ flask_log_widget = <<>>
    /\ transcoder_log_widget = <<>>
    /\ segment_map_widget = <<>>
    /\ stats_widget = <<>>
    /\ tick = NoTick
    /\ last_drain = "none"

\* drain_logs parsing and rendering a line, another, and the first again.
SpecRepeat == InitRepeat /\ [][NextBatch]_vars

\* ------------------------------------------------------------------ any template
\* A manager built with any template, media directory and port.
InitConfig ==
    /\ process = NoProcess
    /\ worker = [p \in Pids |-> "unborn"]
    /\ spawned = 0
    /\ config = "absent"
    /\ signals = <<>>
    /\ pc = "idle"
    /\ call = NoCall
    /\ template \in Templates
    /\ media_dir \in MediaDirs
    /\ transcoder_port \in Ports
    /\ config_text = <<>>
    /\ stops = NoStops
    /\ orch = OrchStarted
    /\ host = HostRunning
    /\ sprite = NewSpriteBuilder
    /\ InitDrain
    /\ InitCapture

NextConfig ==
    \/ StartCall
    \/ StartConfigOk
    \/ StartConfigFail

\* start() up to the moment the config file is closed.
SpecConfig == InitConfig /\ [][NextConfig]_vars

\* ------------------------------------------------------------------ overlapping stops
\* start() has returned: the worker runs and the supervisor holds its handle.
InitStarted ==
    /\ process = 1
    /\ worker = [p \in Pids |-> IF p = 1 THEN "alive" ELSE "unborn"]
    /\ spawned = 1
    /\ config = "complete"
    /\ signals = <<>>
    /\ pc = "idle"
    /\ call = NoCall
    /\ template = DefaultTemplate
    /\ media_dir = DefaultMediaDir
    /\ transcoder_port = 8080
    /\ config_text = <<"x", "/", "m", "x", "8", "0", "8", "0">>
    /\ stops = NoStops
    /\ orch = OrchStarted
    /\ host = HostRunning
    /\ sprite = NewSpriteBuilder
    /\ InitDrain
    /\ InitCapture

NextOverlap ==
    \/ WorkerExit
    \/ \E i \in Callers : StopCallBy(i)
    \/ \E i \in Callers : StopTerminateBy(i)
    \/ \E i \in Callers : StopWaitBy(i)
    \/ \E i \in Callers : StopKillBy(i)
    \/ \E i \in Callers : StopKillWaitBy(i)
    \/ \E i \in Callers : StopExceptPollBy(i)
    \/ \E i \in Callers : StopExceptKillBy(i)
    \/ \E i \in Callers : StopExceptWaitBy(i)
    \/ \E i \in Callers : StopFinallyBy(i)

\* The callers of stop() (the quit action, the signal handler, the
\* orchestrator's shutdown), each calling it once, in any interleaving.
SpecOverlap == InitStarted /\ [][NextOverlap]_vars

\* ------------------------------------------------------------------ the two streams
\* The capture thread has started the worker with pipes, pushed its two
\* messages and reached its loop; the worker has written nothing yet.
InitStreams ==
    /\ process = 1
    /\ worker = [p \in Pids |-> IF p = 1 THEN "alive" ELSE "unborn"]
    /\ spawned = 1
    /\ config = "complete"
    /\ signals = <<>>
    /\ pc = "idle"
    /\ call = NoCall
    /\ template = DefaultTemplate
    /\ media_dir = DefaultMediaDir
    /\ transcoder_port = 8080
    /\ config_text = <<"x", "/", "m", "x", "8", "0", "8", "0">>
    /\ stops = NoStops
    /\ orch = OrchStarted
    /\ host = HostRunning
    /\ sprite = NewSpriteBuilder
    /\ cpc = "loop"
    /\ should_stop = FALSE
    /\ tproc = 1
    /\ piped = TRUE
    /\ stdout_pipe = <<>>
    /\ stderr_pipe = <<>>
    /\ written = <<>>
    /\ failed = "none"
    /\ widgets_set = TRUE
    /\ output_log_queue = <<>>
    /\ transcoder_queue = << [id |-> 1, src |-> "capture", text |-> StartingMsg],
                             [id |-> 2, src |-> "capture", text |-> StartedMsg] >>
    /\ pushed = transcoder_queue
    /\ dpc = "idle"
    /\ flask_lines = <<>>
    /\ transcoder_lines = <<>>
    /\ flask_log_widget = <<>>
    /\ transcoder_log_widget = <<>>
    /\ segment_map_widget = <<>>
    /\ stats_widget = <<>>
    /\ tick = NoTick
    /\ last_drain = "none"

\* One turn of the capture loop: the loop test, the poll, the two reads.
CaptureTurn ==
    \/ CapLoop
    \/ CapPoll
    \/ CapReadStdout
    \/ CapReadStderr

NextStreams ==
    \/ WorkerWrite
    \/ WorkerExit
    \/ CapLoop
    \/ CapPoll
    \/ CapReadStdout
    \/ CapReadStderr
    \/ CapReadFails
    \/ OrchStopSetFlag

\* The capture loop and the worker writing to its two streams.
SpecStreams == InitStreams /\ [][NextStreams]_vars

\* The capture thread is an operating-system thread: whenever its next
\* statement can run, it runs. Nothing obliges the worker to write or to
\* exit, a read to fail, or anybody to call stop().
FairSpecStreams == SpecStreams /\ WF_vars(CaptureTurn)

\* ------------------------------------------------------------------ helpers of the claims
\* The workers the OS has running.
AliveWorkers == {p \in Pids : worker[p] = "alive"}

\* Some stop() has ended, by return or by exception.
StopEnded == call.op = "stop" /\ call.st # "active"

\* signals[i] is a kill, and no earlier entry is a terminate for the same pid.
KillWithoutTerm(i) ==
    /\ signals[i][1] = "kill"
    /\ \A j \in 1 .. (i - 1) : signals[j] # <<"term", signals[i][2]>>

\* ------------------------------------------------------------------ C1
\* C1: whenever a stop() has ended, on whichever path (graceful exit, timeout
\* and kill, exception in the graceful phase, no-op), self.process is None.
C1_HandleClearedAfterStop == StopEnded => process = NoProcess

\* A stop() that went through the exception handler has returned.
C1_Witness ==
    /\ StopEnded
    /\ call.path = "except"
    /\ call.pid # NoProcess
    /\ process = NoProcess

\* ------------------------------------------------------------------ C2
\* C2: a stop() entered with no handle returns at once: no signal, no wait,
\* no change of the handle, the workers, the config or the spawn count, and
\* no exception.
C2_StopWithoutHandleIsNoop ==
    [][(process = NoProcess /\ StopCall) =>
          /\ UNCHANGED <<process, worker, spawned, config, signals>>
          /\ pc' = "idle"
          /\ call'.st = "returned"
          /\ ~call'.term /\ ~call'.kill]_vars

\* stop() has returned on a supervisor that never started anything.
C2_Witness ==
    /\ StopEnded
    /\ call.path = "noop"
    /\ spawned = 0
    /\ signals = <<>>

\* ------------------------------------------------------------------ C3
\* C3: a stop() called right after a stop() has ended changes nothing the
\* first one left (handle, workers, config, spawn count), sends no terminate
\* and no kill, and returns.
C3_SecondStopIsNoop ==
    [][(StopEnded /\ StopCall) =>
          /\ UNCHANGED <<process, worker, spawned, config, signals>>
          /\ pc' = "idle"
          /\ call'.st = "returned"
          /\ ~call'.term /\ ~call'.kill]_vars

\* The second of two stop() calls in a row has returned, the first one having
\* stopped a worker.
C3_Witness ==
    /\ StopEnded
    /\ call.path = "noop"
    /\ call.prev \in {"graceful", "timeout", "except"}
    /\ signals # <<>>

\* ------------------------------------------------------------------ C4
\* C4: a stop() whose graceful wait timed out has sent a kill by the time it
\* reaches finally, ends by returning with its worker dead; and no kill is
\* ever sent by a call that has not first sent the terminate request and then
\* timed out or caught an exception.
C4_TimeoutEscalatesToKill ==
    /\ (call.op = "stop" /\ call.path = "timeout" /\ pc \in {"stop_finally", "idle"}) =>
          /\ call.kill
          /\ worker[call.pid] = "dead"
          /\ signals[Len(signals)] = <<"kill", call.pid>>
    /\ (StopEnded /\ call.path = "timeout") => call.st = "returned"
    /\ call.kill => (call.term /\ call.path \in {"timeout", "except"})
    /\ \A i \in 1 .. Len(signals) : ~KillWithoutTerm(i)

\* A stop() that timed out and killed has returned.
C4_Witness ==
    /\ StopEnded
    /\ call.path = "timeout"
    /\ call.kill
    /\ call.st = "returned"

C6_LaunchFailureClearsHandle ==
    (call.op = "start" /\ call.st = "exit1") => process = NoProcess

\* ------------------------------------------------------------------ C7
\* The lifecycle state the spec names, read off the supervisor's state.
Lifecycle ==
    IF pc \in StartPcs THEN "Starting"
    ELSE IF pc \in StopPcs THEN "Stopping"
    ELSE IF call.op = "start" /\ call.st = "exit1" THEN "Failed"
    ELSE IF process = NoProcess THEN "Stopped"
    ELSE "Running"

\* The transitions C7 names, and Failed -> Starting for the explicit new start().
LifecycleEdges ==
    { <<"Stopped", "Starting">>, <<"Starting", "Running">>, <<"Running", "Stopping">>,
      <<"Stopping", "Stopped">>, <<"Starting", "Failed">>, <<"Failed", "Starting">> }

\* A start() that raised before or in Popen never launched anything: it falls
\* back to the state the handle gives. C7 is silent about it; it is not held
\* against the claim.
StartRaised == pc \in StartPcs /\ pc' = "idle" /\ call'.st = "raised"

\* C7: every change of the lifecycle state made by start() and stop() is one
\* of Stopped -> Starting -> Running -> Stopping -> Stopped, Starting -> Failed
\* (only when the worker exited at once), or Failed -> Starting.
C7_LifecycleTransitions ==
    [][(Lifecycle' # Lifecycle /\ ~StartRaised) =>
          <<Lifecycle, Lifecycle'>> \in LifecycleEdges]_vars

\* ------------------------------------------------------------------ C8
\* C8: at most one worker process is alive at any time.
C8_AtMostOneWorkerAlive == Cardinality(AliveWorkers) <= 1

\* ------------------------------------------------------------------ helpers of the drain claims
Origins == {"service", "stdout", "stderr"}

RECURSIVE Flatten(_)
Flatten(batches) == IF batches = <<>> THEN <<>> ELSE Head(batches) \o Flatten(Tail(batches))

Ids(records) == [i \in 1 .. Len(records) |-> records[i].id]

FromOrigin(records, o) == SelectSeq(records, LAMBDA r : r.src = o)

\* The text drain_logs works on, computed from the text that was put.
Cleaned(r) == IF r.src = "service" THEN _strip_ansi(r.text) ELSE Strip(_strip_ansi(r.text))

\* A worker record whose cleaned text holds the marker; service records are never telemetry.
IsTelemetry(r) == r.src # "service" /\ HasMarker(Cleaned(r))

\* What has reached the log consumer of origin o, in order.
Delivered(o) ==
    FromOrigin(IF o = "service" THEN Flatten(flask_log_widget)
               ELSE Flatten(transcoder_log_widget), o)

\* What of origin o is dequeued but not yet written, then what is still queued.
Pending(o) ==
    FromOrigin(IF o = "service" THEN flask_lines \o output_log_queue
               ELSE transcoder_lines \o transcoder_queue, o)

\* Every delivered line carries the cleaned text of the record that was put,
\* and each log consumer only sees records of its own queue.
DeliveredAsPut ==
    /\ \A i \in 1 .. Len(Flatten(flask_log_widget)) :
          LET d == Flatten(flask_log_widget)[i]
          IN  d.src = "service" /\ d = [pushed[d.id] EXCEPT !.text = Cleaned(pushed[d.id])]
    /\ \A i \in 1 .. Len(Flatten(transcoder_log_widget)) :
          LET d == Flatten(transcoder_log_widget)[i]
          IN  d.src # "service" /\ d = [pushed[d.id] EXCEPT !.text = Cleaned(pushed[d.id])]

\* ------------------------------------------------------------------ C9
\* C9 as stated: for each origin, the non-telemetry records it has put are,
\* in put order and each exactly once, the ones delivered to its log
\* consumer, followed by the ones still held by the tick or the queue.
C9_EveryPlainRecordDeliveredOnce ==
    \A o \in Origins :
        Ids(SelectSeq(FromOrigin(pushed, o), LAMBDA r : ~IsTelemetry(r)))
            = Ids(Delivered(o)) \o Ids(SelectSeq(Pending(o), LAMBDA r : ~IsTelemetry(r)))

\* A record drain_logs hands to a log consumer: not telemetry, and not a
\* service record whose formatted text is empty.
Deliverable(r) == ~IsTelemetry(r) /\ ~(r.src = "service" /\ _format_log_record(r.text) = <<>>)

\* C9 amended: the same, for the records that are neither telemetry nor
\* service records with an empty text (those drain_logs drops): none lost,
\* none delivered twice, none out of order within its origin, each with the
\* cleaned text of what was put.
C9_DeliverableRecordsDeliveredOnce ==
    /\ \A o \in Origins :
          Ids(SelectSeq(FromOrigin(pushed, o), Deliverable))
              = Ids(Delivered(o)) \o Ids(SelectSeq(Pending(o), Deliverable))
    /\ DeliveredAsPut

\* Both queues are drained, the tick has ended, and one origin has had two
\* records delivered while another record was put in between.
C9_Witness ==
    /\ dpc = "idle"
    /\ output_log_queue = <<>>
    /\ transcoder_queue = <<>>
    /\ \E o \in Origins :
          /\ Len(Delivered(o)) = 2
          /\ Delivered(o)[1].id = 1
          /\ Delivered(o)[2].id = 3

\* ------------------------------------------------------------------ C10
\* C10 as stated: a tick forwards at most one status update to the telemetry
\* consumer, however many it dequeues.
C10_OneTelemetryCallPerTick == Len(tick.telemetry) <= 1

\* C10 amended: every status update a tick dequeues is forwarded to the
\* telemetry consumer, in dequeue order, and the display left behind is the
\* render of the most recent one alone.
C10_EveryStatusUpdateForwarded ==
    /\ tick.telemetry = SelectSeq(tick.worker, LAMBDA id : IsTelemetry(pushed[id]))
    /\ tick.telemetry # <<>> =>
          LET last == pushed[tick.telemetry[Len(tick.telemetry)]]
              info == parse_status_update_log(Cleaned(last))
          IN  /\ segment_map_widget = <<info.colored_segments>>
              /\ stats_widget = info.stats_line

\* A tick that dequeued two different status updates has ended.
C10_Witness ==
    /\ dpc = "idle"
    /\ Len(tick.telemetry) = 2
    /\ pushed[tick.telemetry[1]].text # pushed[tick.telemetry[2]].text

\* ------------------------------------------------------------------ C11
\* C11: every batch written to a log consumer holds at least one and at most
\* chunk_size (10) lines, however many records the tick dequeued.
C11_BatchAtMostChunkSize ==
    /\ \A i \in 1 .. Len(flask_log_widget) :
          Len(flask_log_widget[i]) \in 1 .. chunk_size
    /\ \A i \in 1 .. Len(transcoder_log_widget) :
          Len(transcoder_log_widget[i]) \in 1 .. chunk_size

\* A tick that dequeued more than chunk_size lines of one queue has ended:
\* its consumer got a full batch and then the rest.
C11_Witness ==
    /\ dpc = "idle"
    /\ \E w \in {flask_log_widget, transcoder_log_widget} :
          /\ Len(w) = 2
          /\ Len(w[1]) = chunk_size
          /\ Len(w[2]) >= 1

\* ------------------------------------------------------------------ C12
\* No record has been dequeued yet: every one ever put is still on its queue.
NothingDequeued == Len(output_log_queue) + Len(transcoder_queue) = Len(pushed)

\* No consumer has been called yet.
NoConsumerCall ==
    /\ flask_log_widget = <<>>
    /\ transcoder_log_widget = <<>>
    /\ segment_map_widget = <<>>
    /\ stats_widget = <<>>

\* drain_logs stands at a test that finds nothing: a queue to drain that is
\* empty, or a list to flush that is empty.
EmptyTurn ==
    \/ dpc = "flask_get" /\ output_log_queue = <<>>
    \/ dpc = "flask_write" /\ flask_lines = <<>>
    \/ dpc = "transcoder_get" /\ transcoder_queue = <<>>
    \/ dpc = "transcoder_write" /\ transcoder_lines = <<>>

\* The place in drain_logs that follows each of its four loops.
AfterLoop ==
    [flask_get |-> "flask_write", flask_write |-> "transcoder_get",
     transcoder_get |-> "transcoder_write", transcoder_write |-> "idle"]

\* C12: as long as no tick has found a record to dequeue, no consumer has been
\* called (no log write, no segment map clear or write, no stats update); and
\* a step of drain_logs at a test that finds nothing makes no consumer call
\* and no write-and-pause turn: it goes straight past the loop, the last one
\* to the return.
C12_EmptyTickCallsNoConsumer ==
    /\ [](NothingDequeued => NoConsumerCall)
    /\ [][EmptyTurn =>
            /\ UNCHANGED <<flask_log_widget, transcoder_log_widget,
                           segment_map_widget, stats_widget, flask_lines, transcoder_lines>>
            /\ dpc' # dpc => dpc' = AfterLoop[dpc]]_vars

\* A tick that found both queues empty stands before its return, no consumer
\* called.
C12_Witness ==
    /\ dpc = "transcoder_write"
    /\ transcoder_lines = <<>>
    /\ pushed = <<>>
    /\ NoConsumerCall

\* ------------------------------------------------------------------ C13
\* C13: drain_logs never raises to its caller, and whatever fails in a tick,
\* every record that can be delivered is delivered, held by the tick or still
\* queued: none is lost.
C13_DrainNeverRaises ==
    /\ dpc # "raised"
    /\ \A o \in Origins :
          Ids(SelectSeq(FromOrigin(pushed, o), Deliverable))
              = Ids(Delivered(o)) \o Ids(SelectSeq(Pending(o), Deliverable))

\* ------------------------------------------------------------------ helpers of the capture claims
Streams == {"stdout", "stderr"}

PipeOf(src) == IF src = "stdout" THEN stdout_pipe ELSE stderr_pipe

\* The lines the worker has written to one stream, in order.
LinesWritten(src) ==
    LET w == SelectSeq(written, LAMBDA x : x.src = src)
    IN  [i \in 1 .. Len(w) |-> w[i].line]

\* The lines the capture thread has read from one stream: those written to
\* its pipe and no longer in it. Without pipes it reads none.
LinesRead(src) ==
    IF piped
    THEN SubSeq(LinesWritten(src), 1, Len(LinesWritten(src)) - Len(PipeOf(src)))
    ELSE <<>>

NonBlank(lines) == SelectSeq(lines, LAMBDA l : Strip(l) # <<>>)

\* What a record of a line must hold: the line without the blanks around it,
\* after the "[STDERR] " prefix for a stderr line.
Carried(src, line) == IF src = "stderr" THEN <<StderrTag>> \o Strip(line) ELSE Strip(line)

TerminalPushed ==
    \E i \in 1 .. Len(pushed) : pushed[i].src = "capture" /\ pushed[i].text = TerminatedMsg

\* C15: once the terminal marker is pushed (the worker's streams being
\* pipes), the worker is no longer alive and every non-blank line it wrote
\* has been pushed: none is left unread.
C15_AllOutputBeforeTerminalMarker ==
    (TerminalPushed /\ piped) =>
        /\ worker[tproc] # "alive"
        /\ \A src \in Streams :
              Len(FromOrigin(pushed, src)) = Len(NonBlank(LinesWritten(src)))

\* ------------------------------------------------------------------ C16
\* The capture thread is inside a readline() that cannot return: the worker
\* is alive and has written nothing the thread has not read.
BlockedInRead ==
    \/ cpc = "read_stdout" /\ piped /\ ~CanRead(stdout_pipe)
    \/ cpc = "read_stderr" /\ piped /\ ~CanRead(stderr_pipe)

ReadFailure == cpc # "crashed" /\ cpc' = "crashed" /\ failed' = "read"

\* drain_logs can take its next step, whichever it is.
DrainCanStep ==
    /\ dpc = "idle" => ENABLED DrainCall
    /\ dpc = "flask_get" => ENABLED DrainFlaskGet
    /\ dpc = "flask_write" => ENABLED DrainFlaskWrite
    /\ dpc = "transcoder_get" => ENABLED DrainTranscoderGet
    /\ dpc = "transcoder_write" => ENABLED DrainTranscoderWrite

TheSegments == pushed[1].text[4].v

TheDownloads == pushed[1].text[6].v

\* The glyph at position i of a value, the filler glyph past its end.
GlyphAt(glyphs, i) == IF i <= Len(glyphs) THEN glyphs[i] ELSE "dash"

\* The status update has been rendered and written to the segment map.
MapShown == tick.telemetry = <<1>> /\ Len(segment_map_widget) = 1

\* ------------------------------------------------------------------ C18
\* C18: in the map shown, every position holds the segment glyph of that
\* position (never the download glyph) and is styled by the download glyph:
\* done on a full square gives dark-green foreground and no background; done
\* on any other glyph gives dark-green background, white foreground; in
\* progress gives orange background, white foreground; error gives red
\* background, white foreground; anything else gives no style.
C18_StyleByDownloadGlyph ==
    MapShown =>
        \A i \in 1 .. Len(segment_map_widget[1]) :
            LET out == segment_map_widget[1][i]
                seg == GlyphAt(TheSegments, i)
                dl == GlyphAt(TheDownloads, i)
            IN  /\ out.glyph = seg
                /\ (dl = "check" /\ seg \in {"full_block", "black_square"}) =>
                      (out.bg = "none" /\ out.fg = "#207520")
                /\ (dl = "check" /\ seg \notin {"full_block", "black_square"}) =>
                      (out.bg = "#207520" /\ out.fg = "white")
                /\ dl = "play" => (out.bg = "#d97c13" /\ out.fg = "white")
                /\ dl = "bang" => (out.bg = "red" /\ out.fg = "white")
                /\ dl \notin {"check", "play", "bang"} => (out.bg = "none" /\ out.fg = "none")

\* The map of a full square and another glyph, both done, is shown.
C18_Witness ==
    /\ MapShown
    /\ TheSegments = <<"full_block", "A">>
    /\ TheDownloads = <<"check", "check">>
    /\ segment_map_widget[1] =
          << [bg |-> "none", fg |-> "#207520", glyph |-> "full_block"],
             [bg |-> "#207520", fg |-> "white", glyph |-> "A"] >>

\* ------------------------------------------------------------------ C19
\* C19: the map shown has max(len(segments), len(downloads)) elements; a
\* position past the end of downloads holds its segment glyph unstyled, and a
\* position past the end of segments holds the filler glyph.
C19_LengthIsMaxAndFillerPads ==
    MapShown =>
        /\ Len(segment_map_widget[1]) =
              IF Len(TheSegments) >= Len(TheDownloads) THEN Len(TheSegments) ELSE Len(TheDownloads)
        /\ \A i \in 1 .. Len(segment_map_widget[1]) :
              /\ i > Len(TheDownloads) =>
                    segment_map_widget[1][i] =
                        [bg |-> "none", fg |-> "none", glyph |-> TheSegments[i]]
              /\ i > Len(TheSegments) => segment_map_widget[1][i].glyph = "dash"

\* The map of two segments with one download glyph is shown: the second
\* position is unstyled.
C19_Witness ==
    /\ MapShown
    /\ TheSegments = <<"A", "full_block">>
    /\ TheDownloads = <<"check">>
    /\ Len(segment_map_widget[1]) = 2
    /\ segment_map_widget[1][2] = [bg |-> "none", fg |-> "none", glyph |-> "full_block"]

\* ------------------------------------------------------------------ C20
\* The line in the worker queue, and what the parser returns for it.
TheLine == pushed[1].text

TheInfo == parse_status_update_log(Strip(_strip_ansi(TheLine)))

\* The counters the line holds, and the number each one is given in it.
PresentStats == {name \in StatNames : \E i \in 1 .. Len(TheLine) : TheLine[i] = StatKV(name, TheLine[i].n)}

NumberOf(name) == (CHOOSE t \in {TheLine[i] : i \in 1 .. Len(TheLine)} : t.k = "stat" /\ t.v = <<name>>).n

HasKey(key) == \E i \in 1 .. Len(TheLine) : TheLine[i].k = key

RECURSIVE Substituted(_)
Substituted(t) ==
    IF t = <<>> THEN <<>>
    ELSE IF Len(t) >= 3 /\ SubSeq(t, 1, 3) = <<"{", "M", "}">>
    THEN Resolve(media_dir) \o Substituted(SubSeq(t, 4, Len(t)))
    ELSE IF Len(t) >= 3 /\ SubSeq(t, 1, 3) = <<"{", "P", "}">>
    THEN <<"8", "0", "8", "0">> \o Substituted(SubSeq(t, 4, Len(t)))
    ELSE <<Head(t)>> \o Substituted(Tail(t))

\* A template whose only braces are those of the two placeholders.
RECURSIVE OnlyPlaceholderBraces(_)
OnlyPlaceholderBraces(t) ==
    IF t = <<>> THEN TRUE
    ELSE IF Len(t) >= 3 /\ SubSeq(t, 1, 3) \in {<<"{", "M", "}">>, <<"{", "P", "}">>}
    THEN OnlyPlaceholderBraces(SubSeq(t, 4, Len(t)))
    ELSE Head(t) \notin {"{", "}"} /\ OnlyPlaceholderBraces(Tail(t))

ConfigWritten == config = "complete"

LastUpdate == Cleaned(pushed[tick.telemetry[Len(tick.telemetry)]])

\* The glyphs of the first non-empty `key` value of a line, none if it has none.
GlyphsOf(line, key) ==
    IF \E i \in 1 .. Len(line) : line[i].k = key /\ line[i].v # <<>>
    THEN line[CHOOSE i \in 1 .. Len(line) :
                 /\ line[i].k = key /\ line[i].v # <<>>
                 /\ \A j \in 1 .. (i - 1) : ~(line[j].k = key /\ line[j].v # <<>>)].v
    ELSE <<>>

\* The first value of counter `name` in a line, 0 if the line has none.
CounterOf(line, name) ==
    IF \E i \in 1 .. Len(line) : line[i].k = "stat" /\ line[i].v = <<name>>
    THEN line[CHOOSE i \in 1 .. Len(line) :
                 /\ line[i].k = "stat" /\ line[i].v = <<name>>
                 /\ \A j \in 1 .. (i - 1) : ~(line[j].k = "stat" /\ line[j].v = <<name>>)].n
    ELSE 0

\* A number below 100 in a field of two, and one below 10 in a field of one.
TwoWide(n) == IF n < 10 THEN <<" ", ToString(n)>> ELSE <<ToString(n \div 10), ToString(n % 10)>>

OneWide(n) == IF n < 10 THEN <<ToString(n)>> ELSE <<ToString(n \div 10), ToString(n % 10)>>

\* C22: whenever a tick has processed a status update, the segment map holds
\* one write, made of the glyphs of that line alone (as many as the longer of
\* its two values, the filler beyond its segments), and the stats line holds
\* the counters of that line alone, 0 for each counter the line lacks.
C22_DisplayIsLastUpdateAlone ==
    tick.telemetry # <<>> =>
        LET segs == GlyphsOf(LastUpdate, "segments")
            dls == GlyphsOf(LastUpdate, "downloads")
        IN  /\ Len(segment_map_widget) = 1
            /\ Len(segment_map_widget[1]) = Max(Len(segs), Len(dls))
            /\ \A i \in 1 .. Len(segment_map_widget[1]) :
                  /\ segment_map_widget[1][i].glyph = (IF i <= Len(segs) THEN segs[i] ELSE "dash")
                  /\ (i > Len(dls)) => segment_map_widget[1][i].bg = "none"
            /\ stats_widget =
                  <<"Seg: ">> \o TwoWide(CounterOf(LastUpdate, "queued")) \o <<"q  ">>
                      \o OneWide(CounterOf(LastUpdate, "in_progress")) \o <<"i ">>
                      \o TwoWide(CounterOf(LastUpdate, "done")) \o <<"d / DL: ">>
                      \o TwoWide(CounterOf(LastUpdate, "dl_requested")) \o <<"r  ">>
                      \o OneWide(CounterOf(LastUpdate, "dl_sent")) \o <<"s">>

\* A tick has shown a status update with three glyphs and three counters and
\* then one with no counter and no glyph: the map is empty, every counter 0.
C22_Witness ==
    /\ dpc = "idle"
    /\ tick.telemetry = <<1, 2>>
    /\ pushed[1].text = UpdateLine({"queued", "done", "dl_sent"}, TRUE, TRUE, 0)
    /\ pushed[2].text = <<Mark1, Mark2>>
    /\ segment_map_widget = << <<>> >>
    /\ stats_widget = <<"Seg: ", " ", "0", "q  ", "0", "i ", " ", "0", "d / DL: ", " ", "0", "r  ", "0", "s">>

\* ------------------------------------------------------------------ C23
\* The text of a record holds the marker once its escape sequences are stripped.
Marked(r) == HasMarker(_strip_ansi(r.text))

\* The record is no longer on its queue.
Dequeued(r) ==
    /\ \A i \in 1 .. Len(output_log_queue) : output_log_queue[i].id # r.id
    /\ \A i \in 1 .. Len(transcoder_queue) : transcoder_queue[i].id # r.id

\* The ids in the plain log batches of a queue, written or about to be.
PlainIds(service) ==
    IF service
    THEN {Flatten(flask_log_widget)[i].id : i \in 1 .. Len(Flatten(flask_log_widget))}
            \cup {flask_lines[i].id : i \in 1 .. Len(flask_lines)}
    ELSE {Flatten(transcoder_log_widget)[i].id : i \in 1 .. Len(Flatten(transcoder_log_widget))}
            \cup {transcoder_lines[i].id : i \in 1 .. Len(transcoder_lines)}

\* The ids of the worker records the tick in progress, or the last one, dequeued.
TickIds == {tick.worker[i] : i \in 1 .. Len(tick.worker)}

\* The ids handed to the telemetry consumer by that tick.
TelemetryIds == {tick.telemetry[i] : i \in 1 .. Len(tick.telemetry)}

\* C23 as stated: of the records dequeued, those whose stripped text holds
\* the marker are handled as telemetry and are in no plain batch; the others
\* are in the plain batches of their own origin and are not telemetry.
C23_TelemetryIffMarker ==
    \A i \in 1 .. Len(pushed) :
        LET r == pushed[i]
        IN  Dequeued(r) =>
              IF Marked(r)
              THEN /\ r.id \notin PlainIds(TRUE) \cup PlainIds(FALSE)
                   /\ (r.id \in TickIds) => r.id \in TelemetryIds
              ELSE /\ r.id \in PlainIds(r.src = "service")
                   /\ r.id \notin PlainIds(r.src # "service")
                   /\ r.id \notin TelemetryIds

\* C23 amended: that holds for the records of the worker queue, whose text is
\* also stripped of blanks at both ends. A record of the service queue is
\* never handled as telemetry, marker or not: it is in the service batches
\* alone, unless its text is empty, and then it is in none.
C23_WorkerTelemetryIffMarker ==
    \A i \in 1 .. Len(pushed) :
        LET r == pushed[i]
        IN  Dequeued(r) =>
              IF r.src = "service"
              THEN /\ r.id \notin TelemetryIds
                   /\ r.id \notin PlainIds(FALSE)
                   /\ (r.id \in PlainIds(TRUE)) <=> (r.text # <<>>)
              ELSE IF Marked(r)
              THEN /\ r.id \notin PlainIds(TRUE) \cup PlainIds(FALSE)
                   /\ (r.id \in TickIds) => r.id \in TelemetryIds
              ELSE /\ r.id \in PlainIds(FALSE)
                   /\ r.id \notin PlainIds(TRUE)
                   /\ r.id \notin TelemetryIds

\* The tick has ended: a service record with the marker went to the service
\* log, a worker record whose marker is split by an escape sequence went to
\* the telemetry consumer, and a stderr line went to the worker log.
C23_Witness ==
    /\ dpc = "idle"
    /\ Len(pushed) = 4
    /\ Marked(pushed[2]) /\ pushed[2].src = "service" /\ 2 \in PlainIds(TRUE)
    /\ pushed[3].text = <<Esc, Mark1, Esc, Mark2, Ws, StatKV("done", 12), Esc>>
    /\ tick.telemetry = <<3>>
    /\ pushed[4].src = "stderr" /\ 4 \in PlainIds(FALSE)

\* ------------------------------------------------------------------ C24
\* C24: a tick handles the records that were queued when it began and no
\* more, however many are put while it runs. Here the tick began with both
\* queues empty, so it dequeues nothing and writes nothing.
C24_TickHandlesOnlyQueuedAtStart ==
    /\ flask_lines = <<>>
    /\ flask_log_widget = <<>>
    /\ tick.worker = <<>>
    /\ transcoder_log_widget = <<>>

\* ------------------------------------------------------------------ C25
\* The ANSI pattern matches somewhere in the text: a whole escape sequence,
\* or an ESC character with the rest of a sequence right behind it.
HasEscape(text) ==
    \E i \in 1 .. Len(text) :
        \/ text[i].k = "esc"
        \/ text[i].k = "escbyte" /\ i < Len(text) /\ text[i + 1].k = "csi"

\* C25: no line written to a log consumer, and none waiting to be written,
\* holds an escape sequence the stripping pattern matches.
C25_NoEscapeDelivered ==
    /\ \A i \in 1 .. Len(Flatten(flask_log_widget)) :
          ~HasEscape(Flatten(flask_log_widget)[i].text)
    /\ \A i \in 1 .. Len(Flatten(transcoder_log_widget)) :
          ~HasEscape(Flatten(transcoder_log_widget)[i].text)
    /\ \A i \in 1 .. Len(flask_lines) : ~HasEscape(flask_lines[i].text)
    /\ \A i \in 1 .. Len(transcoder_lines) : ~HasEscape(transcoder_lines[i].text)

\* ------------------------------------------------------------------ C26
\* The five counters of the queued status update, in the order of the line.
QueuedCounter(k) == pushed[1].text[2 + 2 * k].n

\* A counter in a field of two and in a field of one, written out.
InFieldOfTwo(n) ==
    CASE n = 0 -> <<" ", "0">>
      [] n = 9 -> <<" ", "9">>
      [] n = 10 -> <<"1", "0">>
      [] n = 123 -> <<"1", "2", "3">>

InFieldOfOne(n) ==
    CASE n = 0 -> <<"0">>
      [] n = 9 -> <<"9">>
      [] n = 10 -> <<"1", "0">>
      [] n = 123 -> <<"1", "2", "3">>

\* C26: the stats line is "Seg: {queued:2d}q  {in_progress:1d}i {done:2d}d /
\* DL: {dl_requested:2d}r  {dl_sent:1d}s", each counter padded on the left
\* with blanks up to its width and written in full when it is wider.
C26_StatsLineRightJustifiedNotTruncated ==
    tick.telemetry # <<>> =>
        stats_widget =
            <<"Seg: ">> \o InFieldOfTwo(QueuedCounter(1)) \o <<"q  ">>
                \o InFieldOfOne(QueuedCounter(2)) \o <<"i ">>
                \o InFieldOfTwo(QueuedCounter(3)) \o <<"d / DL: ">>
                \o InFieldOfTwo(QueuedCounter(4)) \o <<"r  ">>
                \o InFieldOfOne(QueuedCounter(5)) \o <<"s">>

\* The stats line of "queued=123 in_progress=10 done=9 dl_requested=0
\* dl_sent=0" is shown: two counters wider than their fields, in full.
C26_Witness ==
    /\ dpc = "idle"
    /\ tick.telemetry = <<1>>
    /\ QueuedCounter(1) = 123
    /\ QueuedCounter(2) = 10
    /\ stats_widget = <<"Seg: ", "1", "2", "3", "q  ", "1", "0", "i ", " ", "9", "d / DL: ",
                        " ", "0", "r  ", "0", "s">>

\* ------------------------------------------------------------------ C27
\* The step hands a status update to the parser and the renderer.
TelemetryStep == tick'.telemetry # tick.telemetry /\ tick'.telemetry # <<>>

StopReturned == should_stop /\ call.op = "stop" /\ call.st = "returned"

\* capture_transcoder_output has ended, by leaving its loop or by an exception.
CaptureFinished == cpc \in {"done", "crashed"}

\* C28: however ServiceOrchestrator.stop() interleaves with the start() the
\* capture thread is running, once stop() has returned and the thread has
\* ended no worker is alive and the handle is None; and start() never fails
\* on reading a handle that stop() set to None.
C28_StopDuringStartLeavesNoWorker ==
    /\ failed # "attribute"
    /\ (StopReturned /\ CaptureFinished) =>
          /\ process = NoProcess
          /\ \A p \in Pids : worker[p] # "alive"

\* ------------------------------------------------------------------ C29
\* Every invocation of stop() has ended.
AllStopsEnded == \A i \in Callers : stops[i].pc = "done"

\* One of them was made while another was in progress.
StopsOverlapped == \E i \in Callers : stops[i].during

\* C29: when stop() is invoked while another stop() is in progress, every
\* invocation returns without raising, the handle ends as None and the
\* worker is dead.
C29_OverlappingStopsReturn ==
    (AllStopsEnded /\ StopsOverlapped) =>
        /\ \A i \in Callers : stops[i].st = "returned"
        /\ process = NoProcess
        /\ \A p \in Pids : worker[p] # "alive"

\* ------------------------------------------------------------------ C30
\* The worker lives, the capture thread runs and has not been cancelled.
Capturing == worker[tproc] = "alive" /\ ~should_stop /\ cpc \notin {"done", "crashed"}

\* C30: while the worker lives and the capture thread is not cancelled, a
\* line the worker has written to stderr is eventually read and pushed,
\* whatever the worker does on stdout, and a line written to stdout is
\* eventually read and pushed, whatever it does on stderr.
C30_NoStreamStarved ==
    /\ (stderr_pipe # <<>>) ~> (stderr_pipe = <<>> \/ ~Capturing)
    /\ (stdout_pipe # <<>>) ~> (stdout_pipe = <<>> \/ ~Capturing)

\* ------------------------------------------------------------------ C31
\* Nothing has been dequeued and no consumer has been called: every record
\* ever put is still on its queue, in put order, and the four displays are
\* as they were made.
NothingDrained ==
    /\ FromOrigin(pushed, "service") = output_log_queue
    /\ SelectSeq(pushed, LAMBDA r : r.src # "service") = transcoder_queue
    /\ dpc = "idle"
    /\ flask_lines = <<>>
    /\ transcoder_lines = <<>>
    /\ flask_log_widget = <<>>
    /\ transcoder_log_widget = <<>>
    /\ segment_map_widget = <<>>
    /\ stats_widget = <<>>

\* The first drain_logs call after set_ui_widgets has returned (the records
\* were all put before the widgets were registered, and nothing is put later).
FirstDrainDone == widgets_set /\ last_drain = "ran" /\ dpc = "idle"

\* C31 as stated: before the widgets are registered drain_logs dequeues
\* nothing and calls no consumer, and the first drain after registration
\* delivers every record put meanwhile, in order: each plain record to its
\* log consumer, the last status update to the telemetry display.
C31_EarlyDrainKeepsEveryRecord ==
    /\ ~widgets_set => NothingDrained
    /\ FirstDrainDone =>
          /\ \A o \in Origins :
                Ids(Delivered(o)) = Ids(SelectSeq(FromOrigin(pushed, o), LAMBDA r : ~IsTelemetry(r)))
          /\ (\E i \in 1 .. Len(pushed) : IsTelemetry(pushed[i])) => stats_widget # <<>>

\* C31 amended: the same, for the records drain_logs hands to a consumer; a
\* service record with an empty text is dequeued by that first drain and
\* dropped.
C31_EarlyDrainKeepsDeliverableRecords ==
    /\ ~widgets_set => NothingDrained
    /\ FirstDrainDone =>
          /\ output_log_queue = <<>>
          /\ transcoder_queue = <<>>
          /\ \A o \in Origins :
                Ids(Delivered(o)) = Ids(SelectSeq(FromOrigin(pushed, o), Deliverable))
          /\ DeliveredAsPut
          /\ (\E i \in 1 .. Len(pushed) : IsTelemetry(pushed[i])) => stats_widget # <<>>

\* drain_logs has been called with records on both queues, one of them a
\* status update and one with an empty text, before the widgets were
\* registered, and has returned at its guard.
C31_Witness ==
    /\ ~widgets_set
    /\ last_drain = "returned"
    /\ \E i \in 1 .. Len(output_log_queue) : output_log_queue[i].text = <<>>
    /\ \E i \in 1 .. Len(transcoder_queue) : IsTelemetry(transcoder_queue[i])

\* ------------------------------------------------------------------ C32
TelemetryDisplay == <<segment_map_widget, stats_widget>>

\* C32: the service log consumer only ever gets records of the service
\* queue, the worker log consumer and the telemetry display only records of
\* the worker queue; a step that takes a record off the service queue or
\* writes to the service log leaves the telemetry display and the worker
\* log as they are, whatever the record holds, and the telemetry display
\* changes only in a step that takes a record off the worker queue.
C32_EachQueueItsOwnConsumers ==
    [][/\ \A i \in 1 .. Len(Flatten(flask_log_widget')) :
             Flatten(flask_log_widget')[i].src = "service"
       /\ \A i \in 1 .. Len(Flatten(transcoder_log_widget')) :
             Flatten(transcoder_log_widget')[i].src # "service"
       /\ \A i \in 1 .. Len(tick'.telemetry) : pushed[tick'.telemetry[i]].src # "service"
       /\ (output_log_queue' # output_log_queue \/ flask_log_widget' # flask_log_widget) =>
             /\ TelemetryDisplay' = TelemetryDisplay
             /\ transcoder_log_widget' = transcoder_log_widget
             /\ transcoder_queue' = transcoder_queue
       /\ TelemetryDisplay' # TelemetryDisplay =>
             /\ transcoder_queue # <<>>
             /\ transcoder_queue' = Tail(transcoder_queue)
             /\ Head(transcoder_queue).src # "service"
             /\ flask_log_widget' = flask_log_widget]_vars

\* A service record that holds the marker has been written to the service
\* log; the tick has ended and the telemetry display was never written to.
C32_Witness ==
    /\ dpc = "idle"
    /\ last_drain = "ran"
    /\ \E i \in 1 .. Len(Flatten(flask_log_widget)) : HasMarker(Flatten(flask_log_widget)[i].text)
    /\ transcoder_log_widget # <<>>
    /\ segment_map_widget = <<>>
    /\ stats_widget = <<>>

\* ------------------------------------------------------------------ C33
\* The record is one of the capture thread's own messages.
IsMessage(r, msg) == r.src = "capture" /\ r.text = msg

\* The record is a line read from the worker.
IsWorkerLine(r) == r.src \in {"stdout", "stderr"}

\* The step puts this message.
PutsMessage(msg) == Len(pushed') = Len(pushed) + 1 /\ IsMessage(pushed'[Len(pushed')], msg)

\* C33: "Starting transcoder..." is put before start() is entered, with no
\* handle held; "Transcoder started successfully" only once start() has
\* returned, which it does only when poll() found the worker alive; both
\* come before any line of the worker; the terminal marker is put at most
\* once and nothing is put after it.
C33_MessagesInOrder ==
    [][/\ PutsMessage(StartingMsg) =>
             cpc = "entry" /\ cpc' = "start_cfg" /\ process = NoProcess /\ pushed = <<>>
       /\ cpc' = "started" /\ cpc # "started" =>
             cpc = "start_settle" /\ process # NoProcess /\ worker[process] = "alive"
       /\ PutsMessage(StartedMsg) =>
             /\ cpc = "started"
             /\ Len(pushed) = 1
             /\ IsMessage(pushed[1], StartingMsg)
       /\ \A i \in 1 .. Len(pushed') : \A j \in 1 .. Len(pushed') :
             /\ (IsWorkerLine(pushed'[i]) /\ i < j) =>
                   ~IsMessage(pushed'[j], StartingMsg) /\ ~IsMessage(pushed'[j], StartedMsg)
             /\ IsMessage(pushed'[i], TerminatedMsg) => i = Len(pushed')]_vars

\* The thread has started the worker, put its two messages, then two lines
\* of the worker, then the terminal marker, and has ended.
C33_Witness ==
    /\ cpc = "done"
    /\ Len(pushed) = 5
    /\ IsMessage(pushed[1], StartingMsg)
    /\ IsMessage(pushed[2], StartedMsg)
    /\ IsWorkerLine(pushed[3])
    /\ IsWorkerLine(pushed[4])
    /\ IsMessage(pushed[5], TerminatedMsg)

\* ------------------------------------------------------------------ ServiceOrchestrator.start()
\* What the TranscoderManager owns.
mgrVars ==
    <<process, worker, spawned, config, signals, pc, call,
      template, media_dir, transcoder_port, config_text, stops>>

\* What no statement of ServiceOrchestrator.start() touches.
OrchFrame ==
    /\ UNCHANGED mgrVars
    /\ UNCHANGED <<host, sprite>>
    /\ UNCHANGED drainVars
    /\ UNCHANGED capVars

\* start() is entered, and with it _initialize_video_manager: the two streams
\* are saved, then sys.stdout = capture; sys.stderr = capture.
OrchStartCall ==
    /\ orch.pc = "idle"
    /\ orch' = [orch EXCEPT !.pc = "prepare",
                            !.original_stdout = orch.stdout,
                            !.original_stderr = orch.stderr,
                            !.stdout = "capture",
                            !.stderr = "capture"]
    /\ OrchFrame

\* self.video_manager.prepare_video() returns, or an exception leaves it.
OrchPrepare ==
    /\ orch.pc = "prepare"
    /\ \E raised \in BOOLEAN : orch' = [orch EXCEPT !.pc = "restore", !.exc = raised]
    /\ OrchFrame

\* The two assignments written after the try statement instead of in its
\* finally clause: an exception skips them.
OrchRestore_NoFinally ==
    /\ orch.pc = "restore"
    /\ orch' = IF orch.exc
               THEN [orch EXCEPT !.pc = "raised"]
               ELSE [orch EXCEPT !.pc = "flask",
                                 !.stdout = orch.original_stdout,
                                 !.stderr = orch.original_stderr]
    /\ OrchFrame

\* finally: sys.stdout = original_stdout; sys.stderr = original_stderr. Then
\* the exception, if there is one, leaves start().
OrchRestore ==
    /\ orch.pc = "restore"
    /\ orch' = [orch EXCEPT !.pc = IF orch.exc THEN "raised" ELSE "flask",
                            !.stdout = orch.original_stdout,
                            !.stderr = orch.original_stderr]
    /\ OrchFrame

\* _start_flask_server: self.flask_thread = Thread(...); self.flask_thread.start()
OrchStartFlask ==
    /\ orch.pc = "flask"
    /\ orch' = [orch EXCEPT !.pc = "capture", !.flask_thread = TRUE]
    /\ OrchFrame

\* _start_transcoder_capture: self.transcoder_thread = Thread(...); .start();
\* start() returns.
OrchStartCapture ==
    /\ orch.pc = "capture"
    /\ orch' = [orch EXCEPT !.pc = "returned", !.transcoder_thread = TRUE]
    /\ OrchFrame

\* Somebody writes s to sys.stdout or sys.stderr (a print of prepare_video, a
\* traceback): _StreamToQueue.write when the name is bound to the capture
\* object, the stream's own write otherwise.
SysWrite ==
    /\ \E name \in {"stdout", "stderr"}, s \in ServiceTexts :
          IF orch[name] = "capture"
          THEN /\ IF Strip(s) # <<>>
                  THEN PutService("service", RStripNl(s))
                  ELSE UNCHANGED <<output_log_queue, pushed>>
               /\ UNCHANGED orch
          ELSE /\ orch.elsewhere < MaxPush
               /\ orch' = [orch EXCEPT !.elsewhere = orch.elsewhere + 1]
               /\ UNCHANGED <<output_log_queue, pushed>>
    /\ UNCHANGED <<widgets_set, transcoder_queue, dpc, flask_lines, transcoder_lines,
                   flask_log_widget, transcoder_log_widget, segment_map_widget,
                   stats_widget, tick, last_drain>>
    /\ UNCHANGED mgrVars
    /\ UNCHANGED <<host, sprite>>
    /\ UNCHANGED capVars

\* The orchestrator as __init__ leaves it, whatever the two streams are.
InitOrch ==
    /\ process = NoProcess
    /\ worker = [p \in Pids |-> "unborn"]
    /\ spawned = 0
    /\ config = "absent"
    /\ signals = <<>>
    /\ pc = "idle"
    /\ call = NoCall
    /\ template = DefaultTemplate
    /\ media_dir = DefaultMediaDir
    /\ transcoder_port = 8080
    /\ config_text = <<>>
    /\ stops = NoStops
    /\ \E out \in StreamObjects, err \in StreamObjects : orch = OrchNotStarted(out, err)
    /\ host = HostRunning
    /\ sprite = NewSpriteBuilder
    /\ InitDrain
    /\ InitCapture

NextOrch ==
    \/ OrchStartCall
    \/ OrchPrepare
    \/ OrchRestore
    \/ OrchStartFlask
    \/ OrchStartCapture
    \/ SysWrite
    \/ CapEntry
    \/ CapStartConfig
    \/ CapStartSpawn
    \/ CapStartPoll
    \/ CapStarted
    \/ WorkerExit

\* start() from its call to its end, the writes to the two streams, and the
\* capture thread as far as the worker's launch.
SpecOrch == InitOrch /\ [][NextOrch]_vars

\* ------------------------------------------------------------------ C34
\* C34: the server thread and the capture thread are started only after
\* prepare_video() has returned, the server thread first; while it runs both
\* names are bound to the capture object, so no write reaches another stream;
\* once _initialize_video_manager has ended, by return or by exception, each
\* name is bound to what it was bound to before; and when start() raised, no
\* thread was started and no worker was spawned.
C34_InitializationFirst ==
    /\ [](/\ orch.pc \in {"prepare", "restore"} =>
                /\ orch.stdout = "capture" /\ orch.stderr = "capture"
                /\ ~orch.flask_thread /\ ~orch.transcoder_thread
          /\ orch.pc \in {"flask", "capture", "returned", "raised"} =>
                orch.stdout = orch.stdout0 /\ orch.stderr = orch.stderr0
          /\ orch.flask_thread => ~orch.exc /\ orch.pc \in {"capture", "returned"}
          /\ orch.transcoder_thread => orch.flask_thread /\ orch.pc = "returned"
          /\ orch.pc = "raised" =>
                /\ ~orch.flask_thread /\ ~orch.transcoder_thread
                /\ cpc = "entry" /\ spawned = 0 /\ process = NoProcess
          /\ spawned > 0 => orch.pc = "returned")
    /\ [][orch.pc = "prepare" => orch'.elsewhere = orch.elsewhere]_vars

\* Initialization raised after a write made during it was put on the queue;
\* the two names, bound to different streams before, are bound to them again,
\* and a write made afterwards went to one of them.
C34_Witness ==
    /\ orch.pc = "raised"
    /\ orch.stdout0 # orch.stderr0
    /\ pushed # <<>>
    /\ orch.elsewhere > 0

\* ------------------------------------------------------------------ the host's ways out
\* The two invocations of stop() the host process makes on its main thread:
\* action_quit (tui.py:383) and _signal_handler (host.py:153).
QuitCaller == 1

HandlerCaller == 2

\* A Python signal handler runs on the main thread, on top of whatever the
\* main thread was doing: the quit action stands still while the handler runs.
Runs(i) ==
    /\ ~host.exited
    /\ i = HandlerCaller => host.handler = "stop"
    /\ i = QuitCaller => host.quit = "stopping" /\ host.handler = "none"
    /\ i \in {QuitCaller, HandlerCaller}

\* What the host's own steps leave alone.
HostFrame ==
    /\ UNCHANGED <<worker, spawned, config, signals, pc, call>>
    /\ UNCHANGED cfgVars
    /\ UNCHANGED <<orch, sprite>>
    /\ UNCHANGED drainVars
    /\ UNCHANGED capVars

\* In the handler of `except Exception`, self.process.kill() raises (the OS
\* refuses: PermissionError): the exception leaves the handler, the worker
\* is as it was.
StopExceptKillFailsBy(i) ==
    /\ stops[i].pc = "stop_except_kill"
    /\ process # NoProcess
    /\ RaiseFromHandler(i)
    /\ UNCHANGED <<process, worker, signals>>
    /\ StopFrame

\* SIGINT or SIGTERM arrives: _signal_handler is entered and prints its line.
SignalArrives ==
    /\ ~host.exited
    /\ host.handler = "none"
    /\ host' = [host EXCEPT !.handler = "stop"]
    /\ UNCHANGED <<process, stops>>
    /\ HostFrame

\* The handler without try / finally: transcoder_manager.stop(); sys.exit(0).
\* An exception out of stop() goes on, uncaught, and ends the process with
\* status 1.
HandlerExit_NoFinally ==
    /\ host.handler = "stop"
    /\ stops[HandlerCaller].pc = "done"
    /\ host' = [host EXCEPT !.handler = "exited", !.exited = TRUE,
                            !.status = IF stops[HandlerCaller].st = "raised" THEN 1 ELSE 0]
    /\ IF InProgress(QuitCaller)
       THEN /\ stops' = [stops EXCEPT ![QuitCaller].pc = "done", ![QuitCaller].st = "raised"]
            /\ process' = NoProcess
       ELSE UNCHANGED <<process, stops>>
    /\ HostFrame

\* try: transcoder_manager.stop() finally: sys.exit(0) -- stop() has returned
\* or raised; SystemExit(0) replaces what it raised. SystemExit then unwinds
\* the main thread: a stop() the handler had interrupted is left through its
\* finally clause.
HandlerExit ==
    /\ host.handler = "stop"
    /\ stops[HandlerCaller].pc = "done"
    /\ host' = [host EXCEPT !.handler = "exited", !.exited = TRUE, !.status = 0]
    /\ IF InProgress(QuitCaller)
       THEN /\ stops' = [stops EXCEPT ![QuitCaller].pc = "done", ![QuitCaller].st = "raised"]
            /\ process' = NoProcess
       ELSE UNCHANGED <<process, stops>>
    /\ HostFrame

\* action_quit is entered; its first statement is self._transcoder_manager.stop().
QuitAction ==
    /\ ~host.exited
    /\ host.quit = "none"
    /\ host.handler = "none"
    /\ host' = [host EXCEPT !.quit = "stopping"]
    /\ UNCHANGED <<process, stops>>
    /\ HostFrame

\* stop() has ended. If it raised, the exception leaves action_quit. If not:
\* with a thread named 'flask-server' alive, os.kill(os.getpid(), SIGINT),
\* which enters the signal handler; without one, self.app.exit(), after which
\* tui.run() returns and main() returns 0.
QuitAfterStop ==
    /\ Runs(QuitCaller)
    /\ stops[QuitCaller].pc = "done"
    /\ IF stops[QuitCaller].st = "raised"
       THEN host' = [host EXCEPT !.quit = "raised"]
       ELSE \E flask_alive \in BOOLEAN :
               host' = IF flask_alive
                       THEN [host EXCEPT !.quit = "signalled", !.handler = "stop"]
                       ELSE [host EXCEPT !.quit = "app_exit", !.exited = TRUE, !.status = 0]
    /\ UNCHANGED <<process, stops>>
    /\ HostFrame

NextHost ==
    \/ WorkerExit
    \/ SignalArrives
    \/ HandlerExit
    \/ QuitAction
    \/ QuitAfterStop
    \/ \E i \in Callers : Runs(i) /\ StopCallBy(i)
    \/ \E i \in Callers : Runs(i) /\ StopTerminateBy(i)
    \/ \E i \in Callers : Runs(i) /\ StopWaitBy(i)
    \/ \E i \in Callers : Runs(i) /\ StopKillBy(i)
    \/ \E i \in Callers : Runs(i) /\ StopKillWaitBy(i)
    \/ \E i \in Callers : Runs(i) /\ StopExceptPollBy(i)
    \/ \E i \in Callers : Runs(i) /\ StopExceptKillBy(i)
    \/ \E i \in Callers : Runs(i) /\ StopExceptKillFailsBy(i)
    \/ \E i \in Callers : Runs(i) /\ StopExceptWaitBy(i)
    \/ \E i \in Callers : Runs(i) /\ StopFinallyBy(i)

\* The host with its handler installed and its worker running: a signal and
\* the quit action, in any order, the handler on top of the quit action.
SpecHost == InitStarted /\ [][NextHost]_vars

\* ------------------------------------------------------------------ C35
\* C35: when the signal handler has ended the host, the handler's call of
\* stop() was made and has ended, by return or by exception, and the exit
\* status is 0 either way; when the quit action has gone on past its stop()
\* (to app.exit() or to os.kill), that stop() has returned, the supervisor
\* holds no handle and no worker is alive.
C35_StopBeforeExit ==
    /\ host.exited => host.status = 0
    /\ host.handler = "exited" =>
          /\ host.exited
          /\ stops[HandlerCaller].pc = "done"
          /\ stops[HandlerCaller].st \in {"returned", "raised"}
    /\ host.quit \in {"app_exit", "signalled"} =>
          /\ stops[QuitCaller].st = "returned"
          /\ process = NoProcess
          /\ \A p \in Pids : worker[p] # "alive"
    /\ host.exited => host.handler = "exited" \/ host.quit = "app_exit"

\* The handler's stop() raised (kill() was refused while the worker lived),
\* and the host has exited with status 0.
C35_Witness ==
    /\ host.exited
    /\ host.handler = "exited"
    /\ stops[HandlerCaller].st = "raised"
    /\ host.status = 0

\* ------------------------------------------------------------------ C36
\* C36: every step that creates a worker process is taken by a start() that
\* stands right after its config block (called directly, or by the capture
\* thread), with the config file closed and holding the whole formatted
\* template; start() gets past its config block only by writing the file
\* completely; and a start() that raises in the block ends there, with no
\* process created and the handle as it was.
C36_ConfigBeforeSpawn ==
    [][/\ spawned' # spawned =>
             /\ spawned' = spawned + 1
             /\ (call.op = "start" /\ pc = "start_spawn") \/ cpc = "start_spawn"
             /\ config = "complete" /\ config' = "complete"
             /\ config_text = Format(template)
       /\ (pc' = "start_spawn" /\ pc # "start_spawn") \/ (cpc' = "start_spawn" /\ cpc # "start_spawn") =>
             /\ pc = "start_cfg" \/ cpc = "start_cfg"
             /\ config' = "complete"
             /\ config_text' = Format(template)
       /\ pc = "start_cfg" /\ call'.st = "raised" =>
             /\ pc' = "idle"
             /\ spawned' = spawned /\ worker' = worker /\ process' = process
       /\ cpc = "start_cfg" /\ cpc' = "crashed" =>
             spawned' = spawned /\ worker' = worker /\ process' = process]_vars

\* A first start() has launched a worker; a later one raised while writing
\* the config, leaving the file truncated, and launched nothing.
C36_Witness ==
    /\ call.op = "start"
    /\ call.st = "raised"
    /\ config = "partial"
    /\ spawned = 1
    /\ process = 1

\* ------------------------------------------------------------------ SpriteBuilder
\* How many jobs are submitted in one run.
MaxJobs == 2

\* How many worker threads start() creates in one run.
MaxThreads == 2

\* What no method of SpriteBuilder touches.
SpriteFrame ==
    /\ UNCHANGED mgrVars
    /\ UNCHANGED <<orch, host>>
    /\ UNCHANGED drainVars
    /\ UNCHANGED capVars

\* The worker threads that have not ended.
AliveThreads == {t \in 1 .. Len(sprite.threads) : sprite.threads[t].pc # "ended"}

NoJob == [id |-> 0, ok |-> TRUE]

\* start() without its guard: a thread is made whatever _running says.
SpStart_NoGuard ==
    /\ sprite.pc = "idle"
    /\ Len(sprite.threads) < MaxThreads
    /\ sprite' = [sprite EXCEPT !.stop_event = FALSE,
                                !.threads = Append(sprite.threads, [pc |-> "check", job |-> NoJob]),
                                !.running = TRUE,
                                !.last = "started"]
    /\ SpriteFrame

\* start(): if self._running: return. Otherwise the event is cleared, a
\* thread is made and started, _running is set.
SpStart ==
    /\ sprite.pc = "idle"
    /\ IF sprite.running
       THEN sprite' = [sprite EXCEPT !.last = "start_noop"]
       ELSE /\ Len(sprite.threads) < MaxThreads
            /\ sprite' = [sprite EXCEPT !.stop_event = FALSE,
                                        !.threads = Append(sprite.threads, [pc |-> "check", job |-> NoJob]),
                                        !.running = TRUE,
                                        !.last = "started"]
    /\ SpriteFrame

\* stop(): if not self._running: return. Otherwise the event is set and the
\* caller waits in self._thread.join().
SpStop ==
    /\ sprite.pc = "idle"
    /\ IF sprite.running
       THEN sprite' = [sprite EXCEPT !.stop_event = TRUE, !.pc = "joining"]
       ELSE sprite' = [sprite EXCEPT !.last = "stop_noop"]
    /\ SpriteFrame

\* join() returns once the thread has ended; self._running = False.
SpJoin ==
    /\ sprite.pc = "joining"
    /\ sprite.threads[Len(sprite.threads)].pc = "ended"
    /\ sprite' = [sprite EXCEPT !.running = FALSE, !.pc = "idle", !.last = "stopped"]
    /\ SpriteFrame

\* submit_job(): self._queue.put(...). ok says whether the build of this job
\* will return (TRUE) or raise.
SpSubmit ==
    /\ sprite.pc = "idle"
    /\ Len(sprite.submitted) < MaxJobs
    /\ \E ok \in BOOLEAN :
          LET job == [id |-> Len(sprite.submitted) + 1, ok |-> ok]
          IN  sprite' = [sprite EXCEPT !.queue = Append(sprite.queue, job),
                                       !.submitted = Append(sprite.submitted, job),
                                       !.last = "submitted"]
    /\ SpriteFrame

\* while not self._stop_event.is_set()
WkCheck(t) ==
    /\ sprite.threads[t].pc = "check"
    /\ sprite' = [sprite EXCEPT !.threads[t].pc = IF sprite.stop_event THEN "ended" ELSE "get"]
    /\ SpriteFrame

\* job = self._queue.get(timeout=0.5); except Empty: continue
WkGet(t) ==
    /\ sprite.threads[t].pc = "get"
    /\ IF sprite.queue = <<>>
       THEN sprite' = [sprite EXCEPT !.threads[t].pc = "check"]
       ELSE sprite' = [sprite EXCEPT !.threads[t].pc = "build",
                                     !.threads[t].job = Head(sprite.queue),
                                     !.queue = Tail(sprite.queue)]
    /\ SpriteFrame

\* try: self._build_thumbnail_sprite(...) except Exception: print(...);
\* self._queue.task_done() -- back to the loop test either way.
WkBuild(t) ==
    /\ sprite.threads[t].pc = "build"
    /\ sprite' = [sprite EXCEPT !.threads[t].pc = "check",
                                !.threads[t].job = NoJob,
                                !.built = Append(sprite.built, sprite.threads[t].job)]
    /\ SpriteFrame

NextSprite ==
    \/ SpStart
    \/ SpStop
    \/ SpJoin
    \/ SpSubmit
    \/ \E t \in 1 .. Len(sprite.threads) : WkCheck(t)
    \/ \E t \in 1 .. Len(sprite.threads) : WkGet(t)
    \/ \E t \in 1 .. Len(sprite.threads) : WkBuild(t)

\* One caller making start(), stop() and submit_job() calls one after the
\* other, in any order, while the worker thread runs.
SpecSprite == Init /\ [][NextSprite]_vars

\* ------------------------------------------------------------------ C37
\* C37: at most one worker thread is alive; between calls there is exactly
\* one, the last one made, while _running is set, and none while it is not
\* (so a job whose build raised did not end it); a thread is made only by a
\* start() that found _running clear, and the event is set only by a stop()
\* that found it set; and the jobs whose builds have ended are the first of
\* the jobs submitted, in the order they were submitted.
C37_OneWorkerInOrder ==
    /\ [](/\ Cardinality(AliveThreads) <= 1
          /\ sprite.pc = "idle" /\ sprite.running => AliveThreads = {Len(sprite.threads)}
          /\ ~sprite.running => AliveThreads = {}
          /\ Len(sprite.built) <= Len(sprite.submitted)
          /\ sprite.built = SubSeq(sprite.submitted, 1, Len(sprite.built)))
    /\ [][/\ sprite'.threads # sprite.threads /\ Len(sprite'.threads) > Len(sprite.threads) =>
                ~sprite.running /\ sprite'.last = "started"
          /\ sprite'.stop_event /\ ~sprite.stop_event => sprite.running
          /\ sprite'.last = "start_noop" /\ sprite.last # "start_noop" =>
                sprite.running /\ sprite' = [sprite EXCEPT !.last = "start_noop"]
          /\ sprite'.last = "stop_noop" /\ sprite.last # "stop_noop" =>
                ~sprite.running /\ sprite' = [sprite EXCEPT !.last = "stop_noop"]]_vars

\* A start() made while the worker ran did nothing; the build of the first
\* job raised, the same thread then built the second job.
C37_Witness ==
    /\ sprite.last = "start_noop"
    /\ Len(sprite.threads) = 1
    /\ Len(sprite.built) = 2
    /\ ~sprite.built[1].ok
    /\ sprite.built[2].ok
    /\ AliveThreads = {1}

====
